---- MODULE Spec2Model ----
(***************************************************************************)
(* Battery price engine of EOS_connect                                     *)
(* (src/src/interfaces/battery_price_handler.py, class BatteryPriceHandler)*)
(*                                                                         *)
(* Number representation.  Python floats are carried exactly:              *)
(*   power      W, integers                                                *)
(*   time       seconds, integers (a datetime is its number of seconds)    *)
(*   energy     Wh, integers; the sample sets below hold powers and        *)
(*              spacings for which power * seconds / 3600 is exact         *)
(*   price data ct/kWh (0.01 EUR/kWh), integers                            *)
(*   cost       10^-5 EUR, so that (wh / 1000) * price is wh * price;      *)
(*              a cost divided by the efficiency or scaled by a ratio is a *)
(*              reduced fraction [n, d]                                    *)
(*   price      10^-5 EUR/Wh, reduced fraction [n, d]                      *)
(***************************************************************************)
EXTENDS Integers, Sequences, FiniteSets, TLC

\* Optional values: None is the empty tuple and Some(x) the one-element tuple
None == <<>>
Some(x) == <<x>>
The(o) == o[1]
\* battery_power_convention before detection (None in the source)
NoConvention == "None"

\* ---------------------------------------------------------------- constants
MAX_GAP_SECONDS_IDENTIFY == 600
BUFFER_HOURS_LOOKBACK == 12
DEFAULT_DELTA_SECONDS == 300
CLOSEST_WINDOW_SECONDS == 300
JOIN_TIMEOUT_SECONDS == 120
MIN_CONTEXTUAL_EVENTS == 3
MIN_SAMPLE_SIZE == 100
SECONDS_PER_HOUR == 3600

\* configuration defaults of __init__
price_update_interval == 900
price_history_lookback_hours == 48
charging_threshold_w == 50
grid_charge_threshold_w == 100
\* charge_efficiency 0.95 as the fraction 95/100
charge_efficiency_pct == 95
\* price_euro_per_wh_accu 0.00004 EUR/Wh in 10^-5 EUR/Wh
price_euro_per_wh_accu == 4

\* F applied to the values of its arguments: each argument is evaluated once,
\* before the call
ByValue(F(_), x) == CHOOSE r \in {F(v) : v \in {x}} : TRUE
ByValue2(F(_, _), x, y) == CHOOSE r \in {F(v, w) : v \in {x}, w \in {y}} : TRUE
ByValue3(F(_, _, _), x, y, z) ==
    CHOOSE r \in {F(u, v, w) : u \in {x}, v \in {y}, w \in {z}} : TRUE
ByValue4(F(_, _, _, _), x, y, z, t) ==
    CHOOSE r \in {F(u, v, w, q) : u \in {x}, v \in {y}, w \in {z}, q \in {t}} : TRUE

\* ------------------------------------------------------------------ numbers
Abs(x) == IF x < 0 THEN -x ELSE x
Min2(a, b) == IF a <= b THEN a ELSE b
Max2(a, b) == IF a >= b THEN a ELSE b

\* Euclid's algorithm on a pair of naturals
Euclid[p \in Nat \X Nat] ==
    IF p[2] = 0 THEN p[1] ELSE Euclid[<<p[2], p[1] % p[2]>>]
GCD(a, b) == Euclid[<<a, b>>]

\* the reduced fraction n/d (d # 0)
Rat(n, d) ==
    ByValue2(LAMBDA a, b :
                 ByValue(LAMBDA g : IF b < 0 THEN [n |-> (-a) \div g, d |-> (-b) \div g]
                                    ELSE [n |-> a \div g, d |-> b \div g],
                         GCD(Abs(a), Abs(b))),
             n, d)
RatInt(i) == [n |-> i, d |-> 1]
RatAdd(x, y) ==
    ByValue2(LAMBDA a, b :
                 ByValue(LAMBDA g : Rat(a.n * (b.d \div g) + b.n * (a.d \div g),
                                        (a.d \div g) * b.d),
                         GCD(a.d, b.d)),
             x, y)
RatMul(x, y) ==
    ByValue2(LAMBDA a, b : Rat(a.n * b.n, a.d * b.d), Rat(x.n, y.d), Rat(y.n, x.d))
\* x / y, y # 0
RatDiv(x, y) == ByValue(LAMBDA b : RatMul(x, Rat(b.d, b.n)), y)
RatLess(x, y) == x.n * y.d < y.n * x.d

\* Python round(): the nearest integer to n/d (d > 0), a tie to the even one
RoundHalfEven(n, d) ==
    ByValue2(LAMBDA a, b :
                 ByValue2(LAMBDA q, r : IF 2 * r < b THEN q
                                        ELSE IF 2 * r > b THEN q + 1
                                        ELSE IF q % 2 = 0 THEN q ELSE q + 1,
                          a \div b, a - (a \div b) * b),
             n, d)

\* round(x, 6) of a price: an integer number of 10^-6 EUR/Wh
Round6(price) == ByValue(LAMBDA x : RoundHalfEven(x.n * 10, x.d), price)
\* round(x, 1) of an energy or a percentage given as a fraction: tenths
Round1(x) == ByValue(LAMBDA v : RoundHalfEven(v.n * 10, v.d), x)
\* round(x, 4) of a cost in 10^-5 EUR: an integer number of 10^-4 EUR
Round4(cost) == ByValue(LAMBDA x : RoundHalfEven(x.n, x.d * 10), cost)

\* --------------------------------------------------------------- sequences
Point(t, v) == [timestamp |-> t, value |-> v]

RECURSIVE InsertAsc(_, _, _)
InsertAsc(s, x, f) ==
    IF s = <<>> THEN <<x>>
    ELSE IF s[Len(s)][f] <= x[f] THEN Append(s, x)
    ELSE Append(ByValue(LAMBDA front : InsertAsc(front, x, f), SubSeq(s, 1, Len(s) - 1)),
                s[Len(s)])

RECURSIVE InsertDesc(_, _, _)
InsertDesc(s, x, f) ==
    IF s = <<>> THEN <<x>>
    ELSE IF s[Len(s)][f] >= x[f] THEN Append(s, x)
    ELSE Append(ByValue(LAMBDA front : InsertDesc(front, x, f), SubSeq(s, 1, Len(s) - 1)),
                s[Len(s)])

\* list.sort(key=lambda x: x[f]): stable, ascending
RECURSIVE SortAsc(_, _)
SortAsc(s, f) ==
    IF s = <<>> THEN <<>>
    ELSE ByValue(LAMBDA front : InsertAsc(front, s[Len(s)], f),
                 SortAsc(SubSeq(s, 1, Len(s) - 1), f))

\* list.sort(key=lambda x: x[f], reverse=True): stable, descending
RECURSIVE SortDesc(_, _)
SortDesc(s, f) ==
    IF s = <<>> THEN <<>>
    ELSE ByValue(LAMBDA front : InsertDesc(front, s[Len(s)], f),
                 SortDesc(SubSeq(s, 1, Len(s) - 1), f))

\* historical_data.get(key, []) of a dict whose keys are its DOMAIN
Get(historical_data, key) ==
    IF key \in DOMAIN historical_data THEN historical_data[key] ELSE <<>>

\* d[key] = value on a dict, the key added when it is missing
Put(d, key, value) ==
    [k \in (DOMAIN d) \cup {key} |-> IF k = key THEN value ELSE d[k]]

\* ------------------------------------------------------------------ split
\* a split that offers the grid the whole battery power, not what PV left
_calculate_power_split_double_count(battery_power, pv_power, grid_power, load_power) ==
    LET pv_for_load == Min2(pv_power, load_power)
        remaining_load == Max2(0, load_power - pv_for_load)
        grid_for_load == Min2(grid_power, remaining_load)
        pv_surplus == Max2(0, pv_power - pv_for_load)
        grid_surplus == Max2(0, grid_power - grid_for_load)
    IN  [pv_to_bat |-> Min2(battery_power, pv_surplus),
         grid_to_bat |-> IF grid_surplus > grid_charge_threshold_w
                         THEN Min2(battery_power, grid_surplus) ELSE 0]

\* a split that charges the unexplained battery power to the grid
_calculate_power_split_rest_to_grid(battery_power, pv_power, grid_power, load_power) ==
    LET pv_for_load == Min2(pv_power, load_power)
        remaining_load == Max2(0, load_power - pv_for_load)
        grid_for_load == Min2(grid_power, remaining_load)
        pv_surplus == Max2(0, pv_power - pv_for_load)
        pv_first == Min2(battery_power, pv_surplus)
    IN  [pv_to_bat |-> pv_first, grid_to_bat |-> Max2(0, battery_power - pv_first)]

\* a split that takes grid surplus from the threshold on, not only above it
_calculate_power_split_at_threshold(battery_power, pv_power, grid_power, load_power) ==
    LET pv_for_load == Min2(pv_power, load_power)
        remaining_load == Max2(0, load_power - pv_for_load)
        grid_for_load == Min2(grid_power, remaining_load)
        pv_surplus == Max2(0, pv_power - pv_for_load)
        grid_surplus == Max2(0, grid_power - grid_for_load)
        pv_first == Min2(battery_power, pv_surplus)
        remaining_first == Max2(0, battery_power - pv_first)
        from_grid == grid_surplus >= grid_charge_threshold_w
        grid_to_battery == IF from_grid THEN Min2(remaining_first, grid_surplus) ELSE 0
        remaining_battery ==
            IF from_grid THEN Max2(0, remaining_first - grid_to_battery)
            ELSE remaining_first
    IN  [pv_to_bat |-> pv_first + remaining_battery, grid_to_bat |-> grid_to_battery]

_calculate_power_split(battery_power, pv_power, grid_power, load_power) ==
    LET pv_for_load == Min2(pv_power, load_power)
        remaining_load == Max2(0, load_power - pv_for_load)
        grid_for_load == Min2(grid_power, remaining_load)
        pv_surplus == Max2(0, pv_power - pv_for_load)
        grid_surplus == Max2(0, grid_power - grid_for_load)
        pv_first == Min2(battery_power, pv_surplus)
        remaining_first == Max2(0, battery_power - pv_first)
        from_grid == grid_surplus > grid_charge_threshold_w
        grid_to_battery == IF from_grid THEN Min2(remaining_first, grid_surplus) ELSE 0
        remaining_battery ==
            IF from_grid THEN Max2(0, remaining_first - grid_to_battery)
            ELSE remaining_first
        pv_to_battery ==
            IF remaining_battery > 0 THEN pv_first + remaining_battery ELSE pv_first
    IN  [pv_to_bat |-> pv_to_battery, grid_to_bat |-> grid_to_battery]

_get_fallback_price(timestamp) ==
    LET hour == (timestamp \div SECONDS_PER_HOUR) % 24
    IN  IF 22 <= hour \/ hour <= 6 THEN 15
        ELSE IF 7 <= hour /\ hour <= 13 THEN 25
        ELSE 35

\* the cursor of _get_aligned_value after its while loop (1-based)
RECURSIVE AdvanceCursor(_, _, _)
AdvanceCursor(data, timestamp, idx) ==
    IF idx < Len(data) /\ data[idx + 1].timestamp <= timestamp
    THEN AdvanceCursor(data, timestamp, idx + 1)
    ELSE idx

\* an alignment that reads an empty price stream as a price of zero
_get_aligned_value_zero_price(data, timestamp, idx, fallback) ==
    IF data = <<>> THEN [value |-> 0, idx |-> idx]
    ELSE LET i == AdvanceCursor(data, timestamp, idx)
         IN  [value |-> data[i].value, idx |-> i]

\* returns the value and the cursor it leaves in indices[key];
\* fallback is TRUE for the price stream (fallback_func given)
_get_aligned_value(data, timestamp, idx, fallback) ==
    IF data = <<>>
    THEN [value |-> IF fallback THEN _get_fallback_price(timestamp) ELSE 0,
          idx |-> idx]
    ELSE LET i == AdvanceCursor(data, timestamp, idx)
         IN  [value |-> data[i].value, idx |-> i]

ZeroTotals ==
    [pv_to_battery_wh |-> 0, grid_to_battery_wh |-> 0, total_battery_wh |-> 0,
     total_pv_wh |-> 0, total_grid_wh |-> 0, total_load_wh |-> 0,
     grid_cost_euro |-> 0]

\* power * time_hours, time_hours = delta_seconds / 3600.0
Wh(power, delta_seconds) == (power * delta_seconds) \div SECONDS_PER_HOUR

\* a duration that is the timestamp delta whatever its size
IntervalSeconds_uncapped(p_start, p_end) ==
    p_end.timestamp - p_start.timestamp

\* delta_seconds of one pair of points, after the cap
IntervalSeconds(p_start, p_end) ==
    LET delta == p_end.timestamp - p_start.timestamp
    IN  IF delta > MAX_GAP_SECONDS_IDENTIFY THEN DEFAULT_DELTA_SECONDS ELSE delta

\* one iteration of the for loop of _split_energy_sources, for pair i: the
\* cursors and totals it leaves, with the locals it computed them from
SplitStep(power_points, historical_data, convention, i, indices, totals) ==
    LET p_start == power_points[i]
        p_end == power_points[i + 1]
        timestamp == p_start.timestamp
        delta_seconds == IntervalSeconds(p_start, p_end)
        raw_avg_power == (p_start.value + p_end.value) \div 2
        avg_battery_power ==
            IF convention = "negative_charging" THEN -raw_avg_power ELSE raw_avg_power
        Accumulate(pv, grid, load, price) ==
            LET split == _calculate_power_split(avg_battery_power, pv.value, grid.value,
                                                load.value)
                grid_energy_wh == Wh(split.grid_to_bat, delta_seconds)
            IN  [timestamp |-> timestamp,
                 delta_seconds |-> delta_seconds,
                 avg_battery_power |-> avg_battery_power,
                 values |-> [pv |-> pv.value, grid |-> grid.value, load |-> load.value,
                             price |-> price.value],
                 split |-> split,
                 indices |-> [pv |-> pv.idx, grid |-> grid.idx, load |-> load.idx,
                              price |-> price.idx],
                 totals |->
                    [pv_to_battery_wh |->
                         totals.pv_to_battery_wh + Wh(split.pv_to_bat, delta_seconds),
                     grid_to_battery_wh |-> totals.grid_to_battery_wh + grid_energy_wh,
                     total_battery_wh |->
                         totals.total_battery_wh + Wh(avg_battery_power, delta_seconds),
                     total_pv_wh |-> totals.total_pv_wh + Wh(pv.value, delta_seconds),
                     total_grid_wh |-> totals.total_grid_wh + Wh(grid.value, delta_seconds),
                     total_load_wh |-> totals.total_load_wh + Wh(load.value, delta_seconds),
                     grid_cost_euro |->
                         totals.grid_cost_euro + grid_energy_wh * price.value]]
    IN  ByValue4(Accumulate,
                 _get_aligned_value(Get(historical_data, "pv_power"), timestamp,
                                    indices.pv, FALSE),
                 _get_aligned_value(Get(historical_data, "grid_power"), timestamp,
                                    indices.grid, FALSE),
                 _get_aligned_value(Get(historical_data, "load_power"), timestamp,
                                    indices.load, FALSE),
                 _get_aligned_value(Get(historical_data, "price_data"), timestamp,
                                    indices.price, TRUE))

\* the for loop of _split_energy_sources, from pair i on
RECURSIVE SplitLoop(_, _, _, _, _, _)
SplitLoop(power_points, historical_data, convention, i, indices, totals) ==
    IF i > Len(power_points) - 1 THEN totals
    ELSE ByValue(LAMBDA step :
                     SplitLoop(power_points, historical_data, convention, i + 1,
                               step.indices, step.totals),
                 SplitStep(power_points, historical_data, convention, i, indices, totals))

\* the iterations of that loop from pair i on, one record of SplitStep each
RECURSIVE SplitTrace(_, _, _, _, _, _)
SplitTrace(power_points, historical_data, convention, i, indices, totals) ==
    IF i > Len(power_points) - 1 THEN <<>>
    ELSE ByValue(LAMBDA step :
                     <<step>> \o SplitTrace(power_points, historical_data, convention,
                                            i + 1, step.indices, step.totals),
                 SplitStep(power_points, historical_data, convention, i, indices, totals))

_split_energy_sources(event, historical_data, convention) ==
    IF Len(event.power_points) < 2 THEN ZeroTotals
    ELSE SplitLoop(event.power_points, historical_data, convention, 1,
                   [pv |-> 1, grid |-> 1, load |-> 1, price |-> 1], ZeroTotals)

\* ------------------------------------------------------------ reconstructor
Normalized(power, convention) ==
    IF convention = "negative_charging" THEN -power ELSE power

\* the while loop of _close_charging_event: drop trailing points at or below
\* the threshold
RECURSIVE TrimTail(_, _, _)
TrimTail(power_points, convention, threshold) ==
    IF power_points = <<>> THEN <<>>
    ELSE IF Normalized(power_points[Len(power_points)].value, convention) <= threshold
    THEN ByValue(LAMBDA front : TrimTail(front, convention, threshold),
                 SubSeq(power_points, 1, Len(power_points) - 1))
    ELSE power_points

\* a close that appends the event as the loop left it, tail and all
_close_charging_event_untrimmed(event, events_list, threshold, convention) ==
    Append(events_list, event)

\* returns events_list after the call
_close_charging_event(event, events_list, threshold, convention) ==
    LET power_points == TrimTail(event.power_points, convention, threshold)
    IN  IF power_points # <<>>
        THEN Append(events_list,
                    [start_time |-> event.start_time,
                     end_time |-> power_points[Len(power_points)].timestamp,
                     power_points |-> power_points])
        ELSE events_list

NewEvent(point) ==
    [start_time |-> point.timestamp, end_time |-> point.timestamp,
     power_points |-> <<point>>]

\* an extension that moves end_time and leaves the point out
Extend_end_time_only(event, point) ==
    [start_time |-> event.start_time, end_time |-> point.timestamp,
     power_points |-> event.power_points]

Extend(event, point) ==
    [start_time |-> event.start_time, end_time |-> point.timestamp,
     power_points |-> Append(event.power_points, point)]

\* a loop that lets an event go on over a gap of exactly MAX_GAP_SECONDS_IDENTIFY
RECURSIVE IdentifyLoop_inclusive(_, _, _, _, _, _)
IdentifyLoop_inclusive(battery_data, convention, i, current_event, last_charging_time, charging_events) ==
    IF i > Len(battery_data)
    THEN IF current_event # None
         THEN _close_charging_event(The(current_event), charging_events,
                                    charging_threshold_w, convention)
         ELSE charging_events
    ELSE
    LET point == battery_data[i]
        timestamp == point.timestamp
        normalized_power == Normalized(point.value, convention)
        Rest(event, charging_time, events) ==
            ByValue3(LAMBDA e, t, l : IdentifyLoop_inclusive(battery_data, convention, i + 1, e, t, l),
                     event, charging_time, events)
    IN  IF normalized_power > charging_threshold_w
        THEN IF current_event = None
             THEN Rest(Some(NewEvent(point)), Some(timestamp), charging_events)
             ELSE IF timestamp - The(last_charging_time) <= MAX_GAP_SECONDS_IDENTIFY
             THEN Rest(Some(Extend(The(current_event), point)), Some(timestamp),
                       charging_events)
             ELSE Rest(Some(NewEvent(point)), Some(timestamp),
                       _close_charging_event(The(current_event), charging_events,
                                             charging_threshold_w, convention))
        ELSE IF current_event # None
        THEN IF timestamp - The(last_charging_time) <= MAX_GAP_SECONDS_IDENTIFY
             THEN Rest(Some(Extend(The(current_event), point)), last_charging_time,
                       charging_events)
             ELSE Rest(None, None,
                       _close_charging_event(The(current_event), charging_events,
                                             charging_threshold_w, convention))
        ELSE Rest(current_event, last_charging_time, charging_events)

\* a loop that checks the gap only at samples at or below the threshold
RECURSIVE IdentifyLoop_gap_unchecked_while_charging(_, _, _, _, _, _)
IdentifyLoop_gap_unchecked_while_charging(battery_data, convention, i, current_event, last_charging_time, charging_events) ==
    IF i > Len(battery_data)
    THEN IF current_event # None
         THEN _close_charging_event(The(current_event), charging_events,
                                    charging_threshold_w, convention)
         ELSE charging_events
    ELSE
    LET point == battery_data[i]
        timestamp == point.timestamp
        normalized_power == Normalized(point.value, convention)
        Rest(event, charging_time, events) ==
            ByValue3(LAMBDA e, t, l : IdentifyLoop_gap_unchecked_while_charging(battery_data, convention, i + 1, e, t, l),
                     event, charging_time, events)
    IN  IF normalized_power > charging_threshold_w
        THEN IF current_event = None
             THEN Rest(Some(NewEvent(point)), Some(timestamp), charging_events)
             ELSE Rest(Some(Extend(The(current_event), point)), Some(timestamp),
                       charging_events)
        ELSE IF current_event # None
        THEN IF timestamp - The(last_charging_time) < MAX_GAP_SECONDS_IDENTIFY
             THEN Rest(Some(Extend(The(current_event), point)), last_charging_time,
                       charging_events)
             ELSE Rest(None, None,
                       _close_charging_event(The(current_event), charging_events,
                                             charging_threshold_w, convention))
        ELSE Rest(current_event, last_charging_time, charging_events)

\* the for loop of _identify_charging_periods from point i on, and the final
\* close; current_event and last_charging_time are None or Some(..)
RECURSIVE IdentifyLoop(_, _, _, _, _, _)
IdentifyLoop(battery_data, convention, i, current_event, last_charging_time, charging_events) ==
    IF i > Len(battery_data)
    THEN IF current_event # None
         THEN _close_charging_event(The(current_event), charging_events,
                                    charging_threshold_w, convention)
         ELSE charging_events
    ELSE
    LET point == battery_data[i]
        timestamp == point.timestamp
        normalized_power == Normalized(point.value, convention)
        Rest(event, charging_time, events) ==
            ByValue3(LAMBDA e, t, l : IdentifyLoop(battery_data, convention, i + 1, e, t, l),
                     event, charging_time, events)
    IN  IF normalized_power > charging_threshold_w
        THEN IF current_event = None
             THEN Rest(Some(NewEvent(point)), Some(timestamp), charging_events)
             ELSE IF timestamp - The(last_charging_time) < MAX_GAP_SECONDS_IDENTIFY
             THEN Rest(Some(Extend(The(current_event), point)), Some(timestamp),
                       charging_events)
             ELSE Rest(Some(NewEvent(point)), Some(timestamp),
                       _close_charging_event(The(current_event), charging_events,
                                             charging_threshold_w, convention))
        ELSE IF current_event # None
        THEN IF timestamp - The(last_charging_time) < MAX_GAP_SECONDS_IDENTIFY
             THEN Rest(Some(Extend(The(current_event), point)), last_charging_time,
                       charging_events)
             ELSE Rest(None, None,
                       _close_charging_event(The(current_event), charging_events,
                                             charging_threshold_w, convention))
        ELSE Rest(current_event, last_charging_time, charging_events)

\* _identify_charging_periods once self.battery_power_convention is set:
\* the events of the battery series sorted by timestamp
ChargingEvents(historical_data, convention) ==
    IF "battery_power" \notin DOMAIN historical_data THEN <<>>
    ELSE ByValue(LAMBDA battery_data :
                     IdentifyLoop(battery_data, convention, 1, None, None, <<>>),
                 SortAsc(historical_data["battery_power"], "timestamp"))

\* ---------------------------------------------------------------- detector
\* min(data, key=|timestamp - target|): the first point at the least distance
RECURSIVE ClosestPoint(_, _, _, _)
ClosestPoint(data, target_timestamp, i, best) ==
    IF i > Len(data) THEN data[best]
    ELSE IF Abs(data[i].timestamp - target_timestamp)
            < Abs(data[best].timestamp - target_timestamp)
    THEN ClosestPoint(data, target_timestamp, i + 1, i)
    ELSE ClosestPoint(data, target_timestamp, i + 1, best)

_get_value_at_timestamp(data, target_timestamp) ==
    IF data = <<>> THEN 0
    ELSE LET closest_point == ClosestPoint(data, target_timestamp, 1, 1)
             time_diff == Abs(closest_point.timestamp - target_timestamp)
         IN  IF time_diff <= CLOSEST_WINDOW_SECONDS THEN closest_point.value ELSE 0

\* the number of i in 1..Len(s) with P(s[i])
CountIf(s, P(_)) == Cardinality({i \in 1..Len(s) : P(s[i])})

\* a heuristic that counts every sample above the charging threshold itself
_fallback_convention_detection_single_threshold(battery_data) ==
    LET threshold == charging_threshold_w
        positive_count ==
            CountIf(battery_data, LAMBDA p : Abs(p.value) > threshold /\ p.value > 0)
        negative_count ==
            CountIf(battery_data, LAMBDA p : Abs(p.value) > threshold /\ p.value < 0)
    IN  IF negative_count > positive_count THEN "negative_charging"
        ELSE "positive_charging"

_fallback_convention_detection(battery_data) ==
    LET threshold == charging_threshold_w * 2
        positive_count ==
            CountIf(battery_data, LAMBDA p : Abs(p.value) > threshold /\ p.value > 0)
        negative_count ==
            CountIf(battery_data, LAMBDA p : Abs(p.value) > threshold /\ p.value < 0)
    IN  IF negative_count > positive_count THEN "negative_charging"
        ELSE "positive_charging"

\* battery_data[-sample_size:]
LastN(s, n) == IF n >= Len(s) THEN s ELSE SubSeq(s, Len(s) - n + 1, Len(s))

Between(data, lo, hi) ==
    SelectSeq(data, LAMBDA p : lo <= p.timestamp /\ p.timestamp <= hi)

_detect_battery_power_convention(historical_data) ==
    IF "battery_power" \notin DOMAIN historical_data THEN "positive_charging"
    ELSE IF historical_data["battery_power"] = <<>> THEN "positive_charging"
    ELSE
    LET battery_data == historical_data["battery_power"]
        sample_size == Max2(MIN_SAMPLE_SIZE, Len(battery_data) \div 5)
        threshold == charging_threshold_w
        Count(battery_sample, pv_data_filtered, grid_data_filtered, load_data_filtered) ==
            LET energy_available(p) ==
                    LET grid_power ==
                            _get_value_at_timestamp(grid_data_filtered, p.timestamp)
                        pv_power ==
                            _get_value_at_timestamp(pv_data_filtered, p.timestamp)
                        load_power ==
                            _get_value_at_timestamp(load_data_filtered, p.timestamp)
                    IN  grid_power > threshold \/ pv_power > load_power + threshold
                evcc_charging_count ==
                    CountIf(battery_sample,
                            LAMBDA p : Abs(p.value) > threshold /\ energy_available(p)
                                       /\ p.value < -threshold)
                standard_charging_count ==
                    CountIf(battery_sample,
                            LAMBDA p : Abs(p.value) > threshold /\ energy_available(p)
                                       /\ p.value > threshold)
                total_contextual_events == evcc_charging_count + standard_charging_count
            IN  IF total_contextual_events < MIN_CONTEXTUAL_EVENTS
                THEN _fallback_convention_detection(battery_sample)
                ELSE IF evcc_charging_count > standard_charging_count
                THEN "negative_charging"
                ELSE "positive_charging"
        Filter(battery_sample) ==
            LET sample_start == battery_sample[1].timestamp
                sample_end == battery_sample[Len(battery_sample)].timestamp
            IN  ByValue3(LAMBDA pv, grid, load : Count(battery_sample, pv, grid, load),
                    Between(SortAsc(Get(historical_data, "pv_power"), "timestamp"),
                            sample_start, sample_end),
                    Between(SortAsc(Get(historical_data, "grid_power"), "timestamp"),
                            sample_start, sample_end),
                    Between(SortAsc(Get(historical_data, "load_power"), "timestamp"),
                            sample_start, sample_end))
    IN  ByValue(Filter, SortAsc(LastN(battery_data, sample_size), "timestamp"))

\* historical_data after _detect_battery_power_convention: the pv, grid and
\* load lists the dict holds are sorted in place
SortedInPlace(historical_data) ==
    IF "battery_power" \notin DOMAIN historical_data THEN historical_data
    ELSE IF historical_data["battery_power"] = <<>> THEN historical_data
    ELSE [k \in DOMAIN historical_data |->
             IF k \in {"pv_power", "grid_power", "load_power"}
             THEN SortAsc(historical_data[k], "timestamp")
             ELSE historical_data[k]]

\* --------------------------------------------------------------- aggregator
\* a loop body that keeps the events that charged nothing
EventSession_keeps_empty(event, historical_data, convention, active_window_start) ==
    IF event.end_time < active_window_start THEN <<>>
    ELSE
    LET Session(event_totals) ==
            <<[start_time |-> event.start_time,
               end_time |-> event.end_time,
               charged_energy |-> event_totals.total_battery_wh,
               charged_from_pv |-> event_totals.pv_to_battery_wh,
               charged_from_grid |-> event_totals.grid_to_battery_wh,
               cost |-> Rat(event_totals.grid_cost_euro * 100, charge_efficiency_pct),
               is_inventory |-> FALSE,
               inventory_energy |-> 0]>>
    IN  ByValue(Session, _split_energy_sources(event, historical_data, convention))

\* the body of the first for loop of _calculate_total_costs for one event:
\* the session appended to all_sessions_data, or nothing when it is skipped
EventSession(event, historical_data, convention, active_window_start) ==
    IF event.end_time < active_window_start THEN <<>>
    ELSE
    LET Session(event_totals) ==
            LET battery_in_wh == event_totals.total_battery_wh
            IN  \* battery_in_wh <= 0.001
                IF battery_in_wh * 1000 <= 1 THEN <<>>
                ELSE <<[start_time |-> event.start_time,
                        end_time |-> event.end_time,
                        charged_energy |-> battery_in_wh,
                        charged_from_pv |-> event_totals.pv_to_battery_wh,
                        charged_from_grid |-> event_totals.grid_to_battery_wh,
                        cost |-> Rat(event_totals.grid_cost_euro * 100,
                                     charge_efficiency_pct),
                        is_inventory |-> FALSE,
                        inventory_energy |-> 0]>>
    IN  ByValue(Session, _split_energy_sources(event, historical_data, convention))

RECURSIVE AllSessionsData(_, _, _, _)
AllSessionsData(charging_events, historical_data, convention, active_window_start) ==
    IF charging_events = <<>> THEN <<>>
    ELSE AllSessionsData(SubSeq(charging_events, 1, Len(charging_events) - 1),
                         historical_data, convention, active_window_start)
         \o EventSession(charging_events[Len(charging_events)], historical_data,
                         convention, active_window_start)

ZeroWalk ==
    [sessions |-> <<>>, accumulated_inventory |-> 0, total_cost |-> RatInt(0),
     total_energy_charged |-> 0, total_pv_energy |-> RatInt(0),
     total_grid_energy |-> RatInt(0), raised |-> FALSE]

\* a marking that takes every marked session whole
MarkSession_whole(session, inventory_wh, accumulated_inventory) ==
    IF inventory_wh # None /\ accumulated_inventory < The(inventory_wh)
    THEN [session EXCEPT !.is_inventory = TRUE,
                         !.inventory_energy = session.charged_energy]
    ELSE session

\* the marking half of the loop body: the session as the walk leaves it
MarkSession(session, inventory_wh, accumulated_inventory) ==
    IF inventory_wh # None /\ accumulated_inventory < The(inventory_wh)
    THEN LET remaining_needed == The(inventory_wh) - accumulated_inventory
         IN  [session EXCEPT !.is_inventory = TRUE,
                             !.inventory_energy =
                                 IF session.charged_energy <= remaining_needed
                                 THEN session.charged_energy
                                 ELSE remaining_needed]
    ELSE session

\* the inventory walk over all_sessions_data (sorted by end_time, descending)
\* from session i on; raised is set by a division by zero
RECURSIVE WalkLoop(_, _, _, _)
WalkLoop(all_sessions_data, inventory_wh, i, acc) ==
    IF i > Len(all_sessions_data) \/ acc.raised THEN acc
    ELSE
    LET session == MarkSession(all_sessions_data[i], inventory_wh,
                               acc.accumulated_inventory)
        accumulated_inventory ==
            IF session.is_inventory
            THEN acc.accumulated_inventory + session.inventory_energy
            ELSE acc.accumulated_inventory
        participates == inventory_wh = None \/ session.is_inventory
        energy_to_use ==
            IF inventory_wh # None THEN session.inventory_energy
            ELSE session.charged_energy
    IN  IF participates /\ session.charged_energy = 0
        THEN [acc EXCEPT !.raised = TRUE]
        ELSE IF participates
        THEN LET ratio == Rat(energy_to_use, session.charged_energy)
             IN  ByValue(LAMBDA next : WalkLoop(all_sessions_data, inventory_wh, i + 1, next),
                     [sessions |-> Append(acc.sessions, session),
                      accumulated_inventory |-> accumulated_inventory,
                      total_cost |-> RatAdd(acc.total_cost, RatMul(session.cost, ratio)),
                      total_energy_charged |-> acc.total_energy_charged + energy_to_use,
                      total_pv_energy |->
                          RatAdd(acc.total_pv_energy,
                                 RatMul(RatInt(session.charged_from_pv), ratio)),
                      total_grid_energy |->
                          RatAdd(acc.total_grid_energy,
                                 RatMul(RatInt(session.charged_from_grid), ratio)),
                      raised |-> FALSE])
        ELSE ByValue(LAMBDA next : WalkLoop(all_sessions_data, inventory_wh, i + 1, next),
                 [acc EXCEPT !.sessions = Append(acc.sessions, session),
                             !.accumulated_inventory = accumulated_inventory])

\* a walk that starts from the oldest session
InventoryWalk_oldest_first(all_sessions_data, inventory_wh) ==
    ByValue(LAMBDA sorted : WalkLoop(sorted, inventory_wh, 1, ZeroWalk),
            SortAsc(all_sessions_data, "end_time"))

\* a walk that reads a missing inventory as an empty one
InventoryWalk_none_is_empty(all_sessions_data, inventory_wh) ==
    ByValue(LAMBDA sorted :
                WalkLoop(sorted, IF inventory_wh = None THEN Some(0) ELSE inventory_wh,
                         1, ZeroWalk),
            SortDesc(all_sessions_data, "end_time"))

InventoryWalk(all_sessions_data, inventory_wh) ==
    ByValue(LAMBDA sorted : WalkLoop(sorted, inventory_wh, 1, ZeroWalk),
            SortDesc(all_sessions_data, "end_time"))

\* one entry of the sessions list of the result (times kept as numbers,
\* energies in tenths of Wh, ratio in tenths of a percent, cost in 10^-4 EUR)
SessionReport(session) ==
    [start_time |-> session.start_time,
     end_time |-> session.end_time,
     charged_energy |-> Round1(RatInt(session.charged_energy)),
     charged_from_pv |-> Round1(RatInt(session.charged_from_pv)),
     charged_from_grid |-> Round1(RatInt(session.charged_from_grid)),
     ratio |-> IF session.charged_energy > 0
               THEN Round1(Rat(session.charged_from_pv * 100, session.charged_energy))
               ELSE 0,
     cost |-> Round4(session.cost),
     is_inventory |-> session.is_inventory,
     inventory_energy |-> Round1(RatInt(session.inventory_energy))]

MapReport(sessions) ==
    ByValue(LAMBDA l : [i \in 1..Len(l) |-> ByValue(SessionReport, l[i])], sessions)

\* the return value of _calculate_total_costs from the walked sessions
CostResults(walk) ==
    ByValue(LAMBDA w :
                [total_cost |-> w.total_cost,
                 total_energy_charged |-> w.total_energy_charged,
                 total_pv_energy |-> w.total_pv_energy,
                 total_grid_energy |-> w.total_grid_energy,
                 pv_ratio |-> IF w.total_energy_charged > 0
                              THEN RatMul(RatDiv(w.total_pv_energy,
                                                 RatInt(w.total_energy_charged)),
                                          RatInt(100))
                              ELSE RatInt(0),
                 sessions |-> MapReport(SortAsc(w.sessions, "start_time")),
                 raised |-> w.raised],
            walk)

_calculate_total_costs(charging_events, historical_data, lookback_hours, inventory_wh, convention, now) ==
    CostResults(InventoryWalk(
        AllSessionsData(charging_events, historical_data, convention,
                        now - lookback_hours * SECONDS_PER_HOUR),
        inventory_wh))

\* a price taken from the total cost as it is reported, rounded to 4 decimals
WeightedPrice_of_reported_cost(results, held_price) ==
    IF results.total_energy_charged > 0
    THEN RatDiv(Rat(Round4(results.total_cost) * 10, 1),
                RatInt(results.total_energy_charged))
    ELSE held_price

\* weighted_price of calculate_battery_price_from_history
WeightedPrice(results, held_price) ==
    IF results.total_energy_charged > 0
    THEN RatDiv(results.total_cost, RatInt(results.total_energy_charged))
    ELSE held_price

\* ------------------------------------------------------------------- fetch
\* the five (sensor, key) pairs of all_sensors, in thread order
Keys == <<"battery_power", "pv_power", "grid_power", "load_power", "price_data">>
KeySet == {Keys[i] : i \in 1..Len(Keys)}

\* one entry of the history the load interface returns: last_updated is the
\* time, state a number (prices in 0.01 units, so 1.0 is 100) or a text that
\* float() rejects
Entry(t, v) == [last_updated |-> t, state |-> [num |-> TRUE, v |-> v]]
BadEntry(t) == [last_updated |-> t, state |-> [num |-> FALSE, v |-> 0]]

RECURSIVE _convert_historical_data(_, _)
_convert_historical_data(sensor_data, key) ==
    IF sensor_data = <<>> THEN <<>>
    ELSE
    LET entry == sensor_data[Len(sensor_data)]
        rest == _convert_historical_data(SubSeq(sensor_data, 1, Len(sensor_data) - 1), key)
        value ==
            IF key = "price_data" /\ entry.state.v > 100
            THEN entry.state.v \div 100
            ELSE entry.state.v
    IN  IF entry.state.num
        THEN Append(rest, Point(entry.last_updated, value))
        ELSE rest

\* The telemetry store, by history h and key: entries as <<age, state>>, age
\* the seconds before the end of the fetched range.
\*   "grid"   the battery charges 3000 W from the grid (price in ct/kWh)
\*   "evcc"   a negative-is-charging battery charges 3000 W, half from PV
\*   "mixed"  two charges, the older from PV and the newer from the grid
\*   "idle"   the battery neither charges nor discharges
Histories == {"grid", "evcc", "mixed", "idle"}

Ages(h, key) ==
    IF h = "grid" THEN
        CASE key = "battery_power" -> <<<<900, 3000>>, <<600, 3000>>, <<300, 0>>>>
          [] key = "pv_power" -> <<<<900, 0>>>>
          [] key = "grid_power" -> <<<<900, 3504>>>>
          [] key = "load_power" -> <<<<900, 504>>>>
          [] OTHER -> <<<<900, 2500>>>>
    ELSE IF h = "evcc" THEN
        CASE key = "battery_power" -> <<<<600, -3000>>, <<300, -3000>>>>
          [] key = "pv_power" -> <<<<600, 2016>>>>
          [] key = "grid_power" -> <<<<600, 1488>>>>
          [] key = "load_power" -> <<<<600, 504>>>>
          [] OTHER -> <<<<600, 30>>>>
    ELSE IF h = "mixed" THEN
        CASE key = "battery_power" ->
                 <<<<3000, 1200>>, <<2700, 1200>>, <<900, 2400>>, <<600, 2400>>>>
          [] key = "pv_power" -> <<<<3000, 1704>>, <<900, 0>>>>
          [] key = "grid_power" -> <<<<3000, 0>>, <<900, 2904>>>>
          [] key = "load_power" -> <<<<3000, 504>>>>
          [] OTHER -> <<<<3000, 20>>, <<900, 40>>>>
    ELSE
        CASE key = "battery_power" -> <<<<600, 0>>, <<300, 24>>>>
          [] key = "pv_power" -> <<<<600, 0>>>>
          [] key = "grid_power" -> <<<<600, 504>>>>
          [] key = "load_power" -> <<<<600, 504>>>>
          [] OTHER -> <<<<600, 30>>>>

\* load_interface.fetch_historical_energy_data(entity, start_time, end_time)
FetchHistoricalEnergyData(h, key, end_time) ==
    LET ages == Ages(h, key)
    IN  [i \in 1..Len(ages) |-> Entry(end_time - ages[i][1], ages[i][2])]

\* ------------------------------------------------------------------ engine
\* bounds of the model
MaxTicks == 2
TickSeconds == price_update_interval
MaxSlowWorkers == 1
MaxFailedFetches == 1

Callers == {"c1", "c2"}
Readers == {"r1"}
\* the inventory_wh arguments of update_price_if_needed
InventoryArgs == {None, Some(0), Some(150)}
\* the identities of result dicts
Refs == 1..(Cardinality(Readers) + 2)

VARIABLES
    \* EngineState (attributes of the handler)
    price_calculation_enabled,
    price_euro_per_wh,
    last_price_calculation,
    battery_power_convention,
    last_analysis_results,   \* the reference self.last_analysis_results holds
    heap,                    \* the result dicts, by reference
    \* the wall clock, datetime.now()
    now,
    \* the callers of update_price_if_needed: program counter and locals
    run,
    \* the readers: the result dict get_analysis_results gave them
    held,
    \* the fetches that raised and the joins that timed out so far
    failed_fetches,
    slow_workers,
    \* inputs and results of the analysis functions run on their own
    analysis,
    \* the Home Assistant inverter interface (class InverterHA)
    inverter,
    \* the Home Assistant data coordinator (class EOSDataUpdateCoordinator)
    coordinator

vars ==
    <<price_calculation_enabled, price_euro_per_wh, last_price_calculation,
      battery_power_convention, last_analysis_results, heap, now, run, held,
      failed_fetches, slow_workers, analysis, inverter, coordinator>>

\* self.last_analysis_results of __init__
InitialResults ==
    [stored_energy_price |-> Round6(RatInt(price_euro_per_wh_accu)),
     duration_of_analysis |-> 0,
     charged_energy |-> 0,
     charged_from_pv |-> 0,
     charged_from_grid |-> 0,
     ratio |-> 0,
     charging_sessions |-> <<>>,
     last_update |-> None]

\* the locals of a caller that is not inside update_price_if_needed;
\* ret is the value its last call returned
IdleRun(ret) ==
    [pc |-> "idle",
     inventory_wh |-> None,
     telemetry |-> "idle",
     end_time |-> 0,
     threads |-> [k \in KeySet |-> "unstarted"],
     joined |-> 0,
     \* historical_data is None (fetch failed) or Some(dict)
     historical_data |-> None,
     detected |-> NoConvention,
     charging_events |-> <<>>,
     event_index |-> 0,
     active_window_start |-> 0,
     all_sessions_data |-> <<>>,
     new_price |-> None,
     warnings |-> {},
     ret |-> ret]

\* __init__ (state after construction, at time 0), for a set of callers
EngineInit ==
    /\ price_calculation_enabled \in BOOLEAN
    /\ price_euro_per_wh = RatInt(price_euro_per_wh_accu)
    /\ last_price_calculation =
           IF price_calculation_enabled THEN Some(0) ELSE None
    /\ battery_power_convention = NoConvention
    /\ last_analysis_results = 1
    /\ heap = [r \in {1} |-> InitialResults]
    /\ now = 0
    /\ run = [c \in Callers |-> IdleRun("none")]
    /\ held = [r \in Readers |-> None]
    /\ failed_fetches = 0
    /\ slow_workers = 0

should_update_price ==
    IF ~price_calculation_enabled THEN FALSE
    ELSE IF last_price_calculation = None THEN TRUE
    ELSE now - The(last_price_calculation) >= price_update_interval

\* a reference no reader holds and the engine does not hold
FreshRef ==
    CHOOSE r \in Refs :
        /\ r # last_analysis_results
        /\ \A x \in Readers : held[x] # Some(r)
        /\ \A q \in Refs :
               (q # last_analysis_results /\ \A x \in Readers : held[x] # Some(q))
                   => r <= q

\* self.last_analysis_results = {...}: a new dict replaces the reference; the
\* dicts nobody refers to any more are dropped
Swap(results) ==
    LET r == FreshRef
        live == {r} \cup {q \in DOMAIN heap : \E x \in Readers : held[x] = Some(q)}
    IN  /\ last_analysis_results' = r
        /\ heap' = [q \in live |-> IF q = r THEN results ELSE heap[q]]

Tick ==
    /\ now < MaxTicks * TickSeconds
    /\ now' = now + TickSeconds
    /\ UNCHANGED <<price_calculation_enabled, price_euro_per_wh, last_price_calculation,
                   battery_power_convention, last_analysis_results, heap, run, held,
                   failed_fetches, slow_workers, analysis, inverter, coordinator>>

\* update_price_if_needed up to the call of
\* calculate_battery_price_from_history
update_price_if_needed(c, inventory_wh) ==
    /\ run[c].pc = "idle"
    /\ IF should_update_price
       THEN run' = [run EXCEPT ![c] =
                       [IdleRun("none") EXCEPT !.pc = "fetch",
                                               !.inventory_wh = inventory_wh]]
       ELSE run' = [run EXCEPT ![c] = IdleRun("False")]
    /\ UNCHANGED <<price_calculation_enabled, price_euro_per_wh, last_price_calculation,
                   battery_power_convention, last_analysis_results, heap, now, held,
                   failed_fetches, slow_workers, analysis, inverter, coordinator>>

\* _fetch_via_load_interface up to the start of the threads, against the
\* telemetry h the store holds at this time
start_fetch(c, h) ==
    /\ run[c].pc = "fetch"
    /\ run' = [run EXCEPT ![c].pc = "join",
                          ![c].telemetry = h,
                          ![c].end_time = now,
                          ![c].threads = [k \in KeySet |-> "running"],
                          ![c].joined = 0,
                          ![c].historical_data = Some(<<>>)]
    /\ UNCHANGED <<price_calculation_enabled, price_euro_per_wh, last_price_calculation,
                   battery_power_convention, last_analysis_results, heap, now, held,
                   failed_fetches, slow_workers, analysis, inverter, coordinator>>

\* an exception in _fetch_via_load_interface: it returns None
fetch_raises(c) ==
    /\ run[c].pc = "fetch"
    /\ run' = [run EXCEPT ![c].pc = "check", ![c].historical_data = None,
                          ![c].warnings = run[c].warnings \cup {<<"fetch_error">>}]
    /\ UNCHANGED <<price_calculation_enabled, price_euro_per_wh, last_price_calculation,
                   battery_power_convention, last_analysis_results, heap, now, held,
                   failed_fetches, slow_workers, analysis, inverter, coordinator>>

\* a worker whose failure throws away what the other workers have stored
FetchSensorData_clears(r, key, failed) ==
    IF failed
    THEN [r EXCEPT !.threads[key] = "done",
                   !.historical_data = Some(Put(<<>>, key, <<>>)),
                   !.warnings = r.warnings \cup {<<"fetch_failed", key>>}]
    ELSE [r EXCEPT !.threads[key] = "done",
                   !.historical_data =
                       Some(Put(The(r.historical_data), key,
                                _convert_historical_data(
                                    FetchHistoricalEnergyData(r.telemetry, key, r.end_time),
                                    key)))]

\* the body of the thread worker fetch_sensor_data for key: the locals of
\* caller c after the worker has stored its series (failed: the fetch raised)
FetchSensorData(r, key, failed) ==
    LET converted_data ==
            IF failed THEN <<>>
            ELSE _convert_historical_data(
                     FetchHistoricalEnergyData(r.telemetry, key, r.end_time), key)
    IN  [r EXCEPT !.threads[key] = "done",
                  !.historical_data = Some(Put(The(r.historical_data), key, converted_data)),
                  !.warnings = IF failed THEN r.warnings \cup {<<"fetch_failed", key>>}
                               ELSE r.warnings]


\* the hand-over of _fetch_via_load_interface after the last join
AfterJoin(r) ==
    IF r.joined = Len(Keys) THEN [r EXCEPT !.pc = "check"] ELSE r

\* thread.join(timeout=120) returns because the worker of the next thread has
\* finished: the worker's store is taken together with the join (workers
\* write distinct keys under the lock and nothing reads fetch_results before
\* the last join, so the order of their stores before the join is immaterial)
join_finished(c, failed) ==
    /\ run[c].pc = "join"
    /\ run[c].joined < Len(Keys)
    /\ failed => failed_fetches < MaxFailedFetches
    /\ LET key == Keys[run[c].joined + 1]
       IN  /\ run[c].threads[key] = "running"
           /\ run' = [run EXCEPT ![c] =
                         AfterJoin([FetchSensorData(run[c], key, failed)
                                       EXCEPT !.joined = run[c].joined + 1])]
    /\ failed_fetches' = IF failed THEN failed_fetches + 1 ELSE failed_fetches
    /\ UNCHANGED <<price_calculation_enabled, price_euro_per_wh, last_price_calculation,
                   battery_power_convention, last_analysis_results, heap, now, held,
                   slow_workers, analysis, inverter, coordinator>>

\* a join that has no timeout: the orchestrator stays with the silent worker
join_timeout_waits(c) ==
    /\ run[c].pc = "join"
    /\ run[c].joined < Len(Keys)
    /\ slow_workers < MaxSlowWorkers
    /\ LET key == Keys[run[c].joined + 1]
       IN  /\ run[c].threads[key] = "running"
           /\ run' = [run EXCEPT ![c].threads[key] = "alive"]
    /\ slow_workers' = slow_workers + 1
    /\ UNCHANGED <<price_calculation_enabled, price_euro_per_wh, last_price_calculation,
                   battery_power_convention, last_analysis_results, heap, now, held,
                   failed_fetches, analysis, inverter, coordinator>>

\* thread.join(timeout=120) returns on the timeout, the worker still alive
join_timeout(c) ==
    /\ run[c].pc = "join"
    /\ run[c].joined < Len(Keys)
    /\ slow_workers < MaxSlowWorkers
    /\ LET key == Keys[run[c].joined + 1]
       IN  /\ run[c].threads[key] = "running"
           /\ run' = [run EXCEPT ![c] =
                         AfterJoin([run[c] EXCEPT !.joined = run[c].joined + 1,
                                                  !.threads[key] = "alive",
                                                  !.warnings = run[c].warnings
                                                      \cup {<<"timeout", key>>}])]
    /\ slow_workers' = slow_workers + 1
    /\ UNCHANGED <<price_calculation_enabled, price_euro_per_wh, last_price_calculation,
                   battery_power_convention, last_analysis_results, heap, now, held,
                   failed_fetches, analysis, inverter, coordinator>>

\* a worker whose join timed out finishes later and stores its series in the
\* dict the recompute is using
late_fetch_sensor_data(c, key, failed) ==
    /\ run[c].pc \notin {"idle", "fetch", "apply"}
    /\ run[c].historical_data # None
    /\ run[c].threads[key] = "alive"
    /\ failed => failed_fetches < MaxFailedFetches
    /\ run' = [run EXCEPT ![c] = FetchSensorData(run[c], key, failed)]
    /\ failed_fetches' = IF failed THEN failed_fetches + 1 ELSE failed_fetches
    /\ UNCHANGED <<price_calculation_enabled, price_euro_per_wh, last_price_calculation,
                   battery_power_convention, last_analysis_results, heap, now, held,
                   slow_workers, analysis, inverter, coordinator>>

\* the locals of a caller whose calculate_battery_price_from_history has
\* returned new_price (its other locals are dead; the warnings are the log)
Returned(r, new_price) ==
    [IdleRun("none") EXCEPT !.pc = "apply", !.new_price = new_price,
                            !.warnings = r.warnings]

\* the dict of a recompute, {} when the fetch returned None
Data(r) == IF r.historical_data = None THEN <<>> ELSE The(r.historical_data)

\* "if not historical_data or not historical_data.get('battery_power')"
NoBatteryData(r) == Get(Data(r), "battery_power") = <<>>

\* a no-data test that returns without a note of the attempt
check_battery_data_unrecorded(c) ==
    /\ run[c].pc = "check"
    /\ IF NoBatteryData(run[c])
       THEN run' = [run EXCEPT ![c] =
                       Returned([run[c] EXCEPT !.warnings =
                                    run[c].warnings \cup {<<"no_battery_data">>}],
                                None)]
       ELSE run' = [run EXCEPT ![c].pc = "detect"]
    /\ UNCHANGED <<price_calculation_enabled, price_euro_per_wh, last_price_calculation,
                   battery_power_convention, last_analysis_results, heap, now, held,
                   failed_fetches, slow_workers, analysis, inverter, coordinator>>

\* calculate_battery_price_from_history after the fetch: the no-data test,
\* which writes last_update into the dict last_analysis_results refers to
check_battery_data(c) ==
    /\ run[c].pc = "check"
    /\ IF NoBatteryData(run[c])
       THEN /\ heap' = [heap EXCEPT ![last_analysis_results].last_update = Some(now)]
            /\ run' = [run EXCEPT ![c] =
                          Returned([run[c] EXCEPT !.warnings =
                                       run[c].warnings \cup {<<"no_battery_data">>}],
                                   None)]
       ELSE /\ heap' = heap
            /\ run' = [run EXCEPT ![c].pc = "detect"]
    /\ UNCHANGED <<price_calculation_enabled, price_euro_per_wh, last_price_calculation,
                   battery_power_convention, last_analysis_results, now, held,
                   failed_fetches, slow_workers, analysis, inverter, coordinator>>

\* _identify_charging_periods: "if self.battery_power_convention is None" and
\* the call of _detect_battery_power_convention
detect_convention(c) ==
    /\ run[c].pc = "detect"
    /\ IF battery_power_convention = NoConvention
       THEN run' = [run EXCEPT ![c].pc = "set_convention",
                               ![c].detected = _detect_battery_power_convention(Data(run[c])),
                               ![c].historical_data = Some(SortedInPlace(Data(run[c])))]
       ELSE run' = [run EXCEPT ![c].pc = "identify"]
    /\ UNCHANGED <<price_calculation_enabled, price_euro_per_wh, last_price_calculation,
                   battery_power_convention, last_analysis_results, heap, now, held,
                   failed_fetches, slow_workers, analysis, inverter, coordinator>>

\* the assignment of the detected convention to self.battery_power_convention
set_convention(c) ==
    /\ run[c].pc = "set_convention"
    /\ battery_power_convention' = run[c].detected
    /\ run' = [run EXCEPT ![c].pc = "identify"]
    /\ UNCHANGED <<price_calculation_enabled, price_euro_per_wh, last_price_calculation,
                   last_analysis_results, heap, now, held, failed_fetches, slow_workers, analysis,
                   inverter, coordinator>>

\* the result stored when no charging event is found
\* a no-events result that keeps the figures of the analysis before it
NoEventsResults_keeps(lookback_hours) ==
    [heap[last_analysis_results] EXCEPT !.duration_of_analysis = lookback_hours,
                                        !.last_update = Some(now)]

NoEventsResults(lookback_hours) ==
    [stored_energy_price |-> Round6(price_euro_per_wh),
     duration_of_analysis |-> lookback_hours,
     charged_energy |-> 0,
     charged_from_pv |-> 0,
     charged_from_grid |-> 0,
     ratio |-> 0,
     charging_sessions |-> <<>>,
     last_update |-> Some(now)]

\* the rest of _identify_charging_periods (the battery list sorted in place)
\* and the "if not charging_events" branch of the caller
identify_charging_periods(c) ==
    /\ run[c].pc = "identify"
    /\ LET charging_events == ChargingEvents(Data(run[c]), battery_power_convention)
           sorted ==
               IF "battery_power" \in DOMAIN Data(run[c])
               THEN [Data(run[c]) EXCEPT !["battery_power"] =
                        SortAsc(Data(run[c])["battery_power"], "timestamp")]
               ELSE Data(run[c])
       IN  IF charging_events = <<>>
           THEN /\ Swap(NoEventsResults(price_history_lookback_hours))
                /\ run' = [run EXCEPT ![c] = Returned(run[c], Some(price_euro_per_wh))]
           ELSE /\ UNCHANGED <<last_analysis_results, heap>>
                /\ run' = [run EXCEPT ![c].pc = "split",
                                      ![c].historical_data = Some(sorted),
                                      ![c].charging_events = charging_events,
                                      ![c].event_index = 1,
                                      ![c].active_window_start =
                                          now - price_history_lookback_hours * SECONDS_PER_HOUR,
                                      ![c].all_sessions_data = <<>>]
    /\ UNCHANGED <<price_calculation_enabled, price_euro_per_wh, last_price_calculation,
                   battery_power_convention, now, held, failed_fetches, slow_workers, analysis,
                   inverter, coordinator>>

\* one pass of the first for loop of _calculate_total_costs
split_event(c) ==
    /\ run[c].pc = "split"
    /\ run[c].event_index <= Len(run[c].charging_events)
    /\ run' = [run EXCEPT
                  ![c].all_sessions_data =
                      run[c].all_sessions_data
                      \o EventSession(run[c].charging_events[run[c].event_index],
                                      Data(run[c]), battery_power_convention,
                                      run[c].active_window_start),
                  ![c].event_index = run[c].event_index + 1]
    /\ UNCHANGED <<price_calculation_enabled, price_euro_per_wh, last_price_calculation,
                   battery_power_convention, last_analysis_results, heap, now, held,
                   failed_fetches, slow_workers, analysis, inverter, coordinator>>

\* the result stored at the end of calculate_battery_price_from_history
AnalysisResults(results, weighted_price, lookback_hours) ==
    [stored_energy_price |-> Round6(weighted_price),
     duration_of_analysis |-> lookback_hours,
     charged_energy |-> Round1(RatInt(results.total_energy_charged)),
     charged_from_pv |-> Round1(results.total_pv_energy),
     charged_from_grid |-> Round1(results.total_grid_energy),
     ratio |-> Round1(results.pv_ratio),
     charging_sessions |-> results.sessions,
     last_update |-> Some(now)]

\* a return that hands out a zero price when nothing was charged
ReturnedPrice_reset(results, weighted_price, held_price) ==
    IF results.total_energy_charged > 0 THEN weighted_price ELSE RatInt(0)

\* the value calculate_battery_price_from_history returns after the walk
ReturnedPrice(results, weighted_price, held_price) ==
    IF results.total_energy_charged > 0 THEN weighted_price ELSE held_price

\* the inventory walk of _calculate_total_costs, the weighted average and the
\* store of the results; a division by zero ends in the except clause
aggregate(c) ==
    /\ run[c].pc = "split"
    /\ run[c].event_index > Len(run[c].charging_events)
    /\ \E results \in {CostResults(InventoryWalk(run[c].all_sessions_data,
                                                   run[c].inventory_wh))} :
       \E weighted_price \in {WeightedPrice(results, price_euro_per_wh)} :
           IF results.raised
           THEN /\ UNCHANGED <<last_analysis_results, heap>>
                /\ run' = [run EXCEPT ![c] = Returned(run[c], None)]
           ELSE /\ Swap(AnalysisResults(results, weighted_price,
                                        price_history_lookback_hours))
                /\ run' = [run EXCEPT ![c] =
                              Returned(run[c],
                                       Some(ReturnedPrice(results, weighted_price,
                                                          price_euro_per_wh)))]
    /\ UNCHANGED <<price_calculation_enabled, price_euro_per_wh, last_price_calculation,
                   battery_power_convention, now, held, failed_fetches, slow_workers, analysis,
                   inverter, coordinator>>

\* an exception inside the try block of calculate_battery_price_from_history:
\* the except clause logs it and returns None
raise_exception(c) ==
    /\ run[c].pc \in {"check", "detect", "set_convention", "identify", "split"}
    /\ run' = [run EXCEPT ![c] =
                  Returned([run[c] EXCEPT !.warnings = run[c].warnings \cup {<<"error">>}],
                           None)]
    /\ UNCHANGED <<price_calculation_enabled, price_euro_per_wh, last_price_calculation,
                   battery_power_convention, last_analysis_results, heap, now, held,
                   failed_fetches, slow_workers, analysis, inverter, coordinator>>

\* an update that clears the price when the recompute failed
apply_new_price_reset(c) ==
    /\ run[c].pc = "apply"
    /\ IF run[c].new_price # None
       THEN /\ price_euro_per_wh' = The(run[c].new_price)
            /\ last_price_calculation' = Some(now)
            /\ run' = [run EXCEPT ![c] = IdleRun("True")]
       ELSE /\ price_euro_per_wh' = RatInt(0)
            /\ UNCHANGED last_price_calculation
            /\ run' = [run EXCEPT ![c] = IdleRun("False")]
    /\ UNCHANGED <<price_calculation_enabled, battery_power_convention,
                   last_analysis_results, heap, now, held, failed_fetches, slow_workers, analysis,
                   inverter, coordinator>>

\* an update that stamps the calculation time whatever the recompute returned
apply_new_price_stamps(c) ==
    /\ run[c].pc = "apply"
    /\ last_price_calculation' = Some(now)
    /\ IF run[c].new_price # None
       THEN /\ price_euro_per_wh' = The(run[c].new_price)
            /\ run' = [run EXCEPT ![c] = IdleRun("True")]
       ELSE /\ UNCHANGED price_euro_per_wh
            /\ run' = [run EXCEPT ![c] = IdleRun("False")]
    /\ UNCHANGED <<price_calculation_enabled, battery_power_convention,
                   last_analysis_results, heap, now, held, failed_fetches, slow_workers, analysis,
                   inverter, coordinator>>

\* update_price_if_needed after calculate_battery_price_from_history returned
apply_new_price(c) ==
    /\ run[c].pc = "apply"
    /\ IF run[c].new_price # None
       THEN /\ price_euro_per_wh' = The(run[c].new_price)
            /\ last_price_calculation' = Some(now)
            /\ run' = [run EXCEPT ![c] = IdleRun("True")]
       ELSE /\ UNCHANGED <<price_euro_per_wh, last_price_calculation>>
            /\ run' = [run EXCEPT ![c] = IdleRun("False")]
    /\ UNCHANGED <<price_calculation_enabled, battery_power_convention,
                   last_analysis_results, heap, now, held, failed_fetches, slow_workers, analysis,
                   inverter, coordinator>>

\* a reader takes the result dict
get_analysis_results(r) ==
    /\ held' = [held EXCEPT ![r] = Some(last_analysis_results)]
    /\ UNCHANGED <<price_calculation_enabled, price_euro_per_wh, last_price_calculation,
                   battery_power_convention, last_analysis_results, heap, now, run,
                   failed_fetches, slow_workers, analysis, inverter, coordinator>>

\* a reader lets go of the dict it holds
release_results(r) ==
    /\ held[r] # None
    /\ held' = [held EXCEPT ![r] = None]
    /\ heap' = [q \in {x \in DOMAIN heap :
                          x = last_analysis_results
                          \/ \E y \in Readers \ {r} : held[y] = Some(x)} |-> heap[q]]
    /\ UNCHANGED <<price_calculation_enabled, price_euro_per_wh, last_price_calculation,
                   battery_power_convention, last_analysis_results, now, run, failed_fetches, slow_workers, analysis,
                   inverter, coordinator>>

get_current_price == price_euro_per_wh

\* the steps of one caller with every fetch answered in time
Recompute(c) ==
    \/ \E inventory_wh \in InventoryArgs : update_price_if_needed(c, inventory_wh)
    \/ \E h \in Histories : start_fetch(c, h)
    \/ join_finished(c, FALSE)
    \/ check_battery_data(c)
    \/ detect_convention(c)
    \/ set_convention(c)
    \/ identify_charging_periods(c)
    \/ split_event(c)
    \/ aggregate(c)
    \/ apply_new_price(c)

\* the steps of a recompute in which something fails
Faults(c) ==
    \/ fetch_raises(c)
    \/ join_finished(c, TRUE)
    \/ join_timeout(c)
    \/ \E key \in KeySet, failed \in BOOLEAN : late_fetch_sensor_data(c, key, failed)
    \/ raise_exception(c)

ReaderStep ==
    \E r \in Readers : get_analysis_results(r) \/ release_results(r)

\* ---------------------------------------------------------------- analysis
\* The analysis functions run on their own, on histories drawn from bounded
\* sets: MaxPoints battery samples, each <<seconds after the one before, W>>,
\* under either convention, with constant PV, grid and load readings.
MaxPoints == 6
Samples == {<<240, 1200>>, <<900, 1200>>, <<240, -2400>>}
Sources ==
    {[pv |-> 1200, grid |-> 2400, load |-> 600],
     [pv |-> 600, grid |-> 0, load |-> 0]}
Conventions == {"positive_charging", "negative_charging"}
\* the inventory_wh and lookback_hours arguments of the analysis
TargetArgs == {None, Some(0), Some(100), Some(200)}
LookbackArgs == {price_history_lookback_hours, 1}
\* the time of the analysis, after the last sample
AnalysisNow == MaxPoints * 900

RECURSIVE TimeAt(_, _)
TimeAt(steps, i) == IF i = 0 THEN 0 ELSE TimeAt(steps, i - 1) + steps[i][1]

\* the converted history of a battery that charges as steps says
AnalysisData(steps, convention, source) ==
    LET sign == IF convention = "negative_charging" THEN -1 ELSE 1
    IN  [battery_power |->
             [i \in 1..Len(steps) |-> Point(TimeAt(steps, i), sign * steps[i][2])],
         pv_power |-> <<Point(0, source.pv)>>,
         grid_power |-> <<Point(0, source.grid)>>,
         load_power |-> <<Point(0, source.load)>>,
         price_data |-> <<Point(0, 30)>>]

NoAnalysis == [stage |-> "none"]
\* no inverter interface has been constructed
NoInverter == [pc |-> "none"]
\* no coordinator has been constructed
NoCoordinator == [pc |-> "none"]

AnalysisInput(historical_data, convention, inventory_wh, lookback_hours) ==
    [stage |-> "input",
     historical_data |-> historical_data,
     convention |-> convention,
     inventory_wh |-> inventory_wh,
     lookback_hours |-> lookback_hours,
     charging_events |-> <<>>,
     all_sessions_data |-> <<>>,
     walk |-> ZeroWalk,
     results |-> CostResults(ZeroWalk),
     returned |-> None,
     again |-> None]

\* _identify_charging_periods on the input
analysis_identify_charging_periods ==
    /\ analysis.stage = "input"
    /\ analysis' = [analysis EXCEPT
                       !.stage = "events",
                       !.charging_events =
                           ChargingEvents(analysis.historical_data, analysis.convention)]
    /\ UNCHANGED <<price_calculation_enabled, price_euro_per_wh, last_price_calculation,
                   battery_power_convention, last_analysis_results, heap, now, run, held,
                   failed_fetches, slow_workers, inverter, coordinator>>

\* the first loop of _calculate_total_costs: the sessions of the events
analysis_split_energy_sources ==
    /\ analysis.stage = "events"
    /\ analysis' = [analysis EXCEPT
                       !.stage = "sessions",
                       !.all_sessions_data =
                           AllSessionsData(analysis.charging_events,
                                           analysis.historical_data, analysis.convention,
                                           AnalysisNow - analysis.lookback_hours
                                                             * SECONDS_PER_HOUR)]
    /\ UNCHANGED <<price_calculation_enabled, price_euro_per_wh, last_price_calculation,
                   battery_power_convention, last_analysis_results, heap, now, run, held,
                   failed_fetches, slow_workers, inverter, coordinator>>

\* the inventory walk of _calculate_total_costs and the price
\* calculate_battery_price_from_history returns from it
analysis_calculate_total_costs ==
    /\ analysis.stage = "sessions"
    /\ LET walk == InventoryWalk(analysis.all_sessions_data, analysis.inventory_wh)
           results == CostResults(walk)
       IN  analysis' = [analysis EXCEPT
                           !.stage = "costs",
                           !.walk = walk,
                           !.results = results,
                           !.returned =
                               IF results.raised THEN None
                               ELSE Some(ReturnedPrice(
                                             results,
                                             WeightedPrice(results, price_euro_per_wh),
                                             price_euro_per_wh))]
    /\ UNCHANGED <<price_calculation_enabled, price_euro_per_wh, last_price_calculation,
                   battery_power_convention, last_analysis_results, heap, now, run, held,
                   failed_fetches, slow_workers, inverter, coordinator>>

\* the time that passes between two runs of the aggregation
Delays == {0, TickSeconds}

\* a second run whose totals go on from those the first run left behind
analysis_calculate_total_costs_accumulates ==
    /\ analysis.stage = "costs"
    /\ \E later \in Delays :
       \E results \in
           {CostResults(
                WalkLoop(SortDesc(AllSessionsData(
                                      analysis.charging_events, analysis.historical_data,
                                      analysis.convention,
                                      AnalysisNow + later
                                          - analysis.lookback_hours * SECONDS_PER_HOUR),
                                  "end_time"),
                         analysis.inventory_wh, 1,
                         [analysis.walk EXCEPT !.sessions = <<>>,
                                               !.accumulated_inventory = 0]))} :
           analysis' = [analysis EXCEPT
                           !.stage = "again",
                           !.again =
                               Some([later |-> later,
                                     results |-> results,
                                     returned |->
                                         IF results.raised THEN None
                                         ELSE Some(ReturnedPrice(
                                                       results,
                                                       WeightedPrice(results,
                                                                     price_euro_per_wh),
                                                       price_euro_per_wh))])]
    /\ UNCHANGED <<price_calculation_enabled, price_euro_per_wh, last_price_calculation,
                   battery_power_convention, last_analysis_results, heap, now, run, held,
                   failed_fetches, slow_workers, inverter, coordinator>>

\* _calculate_total_costs and the weighted price once more, on the events,
\* the series, the held price and the inventory_wh of the run before, at a
\* clock reading that is later by the delay
analysis_calculate_total_costs_again ==
    /\ analysis.stage = "costs"
    /\ \E later \in Delays :
       \E results \in {_calculate_total_costs(analysis.charging_events,
                                              analysis.historical_data,
                                              analysis.lookback_hours,
                                              analysis.inventory_wh,
                                              analysis.convention,
                                              AnalysisNow + later)} :
           analysis' = [analysis EXCEPT
                           !.stage = "again",
                           !.again =
                               Some([later |-> later,
                                     results |-> results,
                                     returned |->
                                         IF results.raised THEN None
                                         ELSE Some(ReturnedPrice(
                                                       results,
                                                       WeightedPrice(results,
                                                                     price_euro_per_wh),
                                                       price_euro_per_wh))])]
    /\ UNCHANGED <<price_calculation_enabled, price_euro_per_wh, last_price_calculation,
                   battery_power_convention, last_analysis_results, heap, now, run, held,
                   failed_fetches, slow_workers, inverter, coordinator>>

Init ==
    /\ EngineInit
    /\ inverter = NoInverter
    /\ coordinator = NoCoordinator
    /\ analysis = NoAnalysis

InitAnalysis ==
    /\ EngineInit
    /\ inverter = NoInverter
    /\ coordinator = NoCoordinator
    /\ price_calculation_enabled
    /\ \E steps \in [1..MaxPoints -> Samples], convention \in Conventions,
          source \in Sources, inventory_wh \in TargetArgs,
          lookback_hours \in LookbackArgs :
           analysis = AnalysisInput(AnalysisData(steps, convention, source),
                                    convention, inventory_wh, lookback_hours)

NextAnalysis ==
    \/ analysis_identify_charging_periods
    \/ analysis_split_energy_sources
    \/ analysis_calculate_total_costs
    \/ analysis_calculate_total_costs_again

SpecAnalysis == InitAnalysis /\ [][NextAnalysis]_vars

\* _calculate_power_split on its own, on powers drawn from sets that hold the
\* cases of its branches: PV below and above the load, the grid exporting,
\* covering the load only, leaving a surplus at and just above
\* grid_charge_threshold_w, and more than the battery takes
BatteryPowers == {0, 60, 3000}
PvPowers == {0, 2000, 3500}
GridPowers == {-500, 0, 600, 601, 2000, 3500}
LoadPowers == {0, 500}

InitSplit ==
    /\ EngineInit
    /\ inverter = NoInverter
    /\ coordinator = NoCoordinator
    /\ price_calculation_enabled
    /\ \E battery_power \in BatteryPowers, pv_power \in PvPowers,
          grid_power \in GridPowers, load_power \in LoadPowers :
           analysis = [stage |-> "powers", battery_power |-> battery_power,
                       pv_power |-> pv_power, grid_power |-> grid_power,
                       load_power |-> load_power]

analysis_calculate_power_split ==
    /\ analysis.stage = "powers"
    /\ analysis' = [stage |-> "power_split",
                    battery_power |-> analysis.battery_power,
                    pv_power |-> analysis.pv_power,
                    grid_power |-> analysis.grid_power,
                    load_power |-> analysis.load_power,
                    split |-> _calculate_power_split(analysis.battery_power,
                                                     analysis.pv_power,
                                                     analysis.grid_power,
                                                     analysis.load_power)]
    /\ UNCHANGED <<price_calculation_enabled, price_euro_per_wh, last_price_calculation,
                   battery_power_convention, last_analysis_results, heap, now, run, held,
                   failed_fetches, slow_workers, inverter, coordinator>>

NextSplit == analysis_calculate_power_split

SpecSplit == InitSplit /\ [][NextSplit]_vars

\* _detect_battery_power_convention on its own: DetectPoints battery samples
\* 300 s apart that charge, discharge, trickle (75 W, between the threshold
\* and twice the threshold) or rest under either sign, a grid
\* series that is empty, covers the first samples only, is out of order, or
\* holds two readings of one instant, and a PV series with or without a
\* surplus (out of order)
DetectPoints == 5

InitDetect ==
    /\ EngineInit
    /\ inverter = NoInverter
    /\ coordinator = NoCoordinator
    /\ price_calculation_enabled
    /\ \E powers \in [1..DetectPoints -> {3000, -3000, 75, 0}],
          grid_power \in {<<>>,
                          <<Point(0, 3504)>>,
                          <<Point(900, 3504), Point(0, 0)>>,
                          <<Point(300, 0), Point(300, 3504), Point(600, 3504)>>},
          pv_power \in {<<Point(0, 0)>>, <<Point(600, 4008), Point(0, 4008)>>} :
           analysis =
               [stage |-> "series",
                historical_data |->
                    [battery_power |->
                         [i \in 1..DetectPoints |-> Point((i - 1) * 300, powers[i])],
                     pv_power |-> pv_power,
                     grid_power |-> grid_power,
                     load_power |-> <<Point(0, 504)>>]]

\* the first detection, as _identify_charging_periods calls it: the result is
\* kept in self.battery_power_convention, and the PV, grid and load lists of
\* the dict are left sorted
analysis_detect_convention ==
    /\ analysis.stage = "series"
    /\ battery_power_convention = NoConvention
    /\ \E detected \in {_detect_battery_power_convention(analysis.historical_data)} :
           /\ battery_power_convention' = detected
           /\ analysis' = [stage |-> "detected",
                           series |-> analysis.historical_data,
                           historical_data |-> SortedInPlace(analysis.historical_data),
                           detected |-> detected]
    /\ UNCHANGED <<price_calculation_enabled, price_euro_per_wh, last_price_calculation,
                   last_analysis_results, heap, now, run, held, failed_fetches,
                   slow_workers, inverter, coordinator>>

\* a second detection that finds the sample of the first one used up
analysis_detect_convention_resumes ==
    /\ analysis.stage = "detected"
    /\ \E historical_data \in {analysis.series, analysis.historical_data} :
           analysis' = [stage |-> "detected_again",
                        series |-> analysis.series,
                        historical_data |-> SortedInPlace(historical_data),
                        detected |-> analysis.detected,
                        again |-> _detect_battery_power_convention(
                                      Put(historical_data, "battery_power", <<>>))]
    /\ UNCHANGED <<price_calculation_enabled, price_euro_per_wh, last_price_calculation,
                   battery_power_convention, last_analysis_results, heap, now, run, held,
                   failed_fetches, slow_workers, inverter, coordinator>>

\* the detector called once more by an engine that holds a convention, on the
\* dict the first call left behind or on a dict equal to the one it was given
analysis_detect_convention_again ==
    /\ analysis.stage = "detected"
    /\ \E historical_data \in {analysis.series, analysis.historical_data} :
           analysis' = [stage |-> "detected_again",
                        series |-> analysis.series,
                        historical_data |-> SortedInPlace(historical_data),
                        detected |-> analysis.detected,
                        again |-> _detect_battery_power_convention(historical_data)]
    /\ UNCHANGED <<price_calculation_enabled, price_euro_per_wh, last_price_calculation,
                   battery_power_convention, last_analysis_results, heap, now, run, held,
                   failed_fetches, slow_workers, inverter, coordinator>>

NextDetect ==
    \/ analysis_detect_convention
    \/ analysis_detect_convention_again

SpecDetect == InitDetect /\ [][NextDetect]_vars

\* The construction of an engine from a configuration dict: the five sensor
\* options are each left out, empty or set, price calculation is on or off,
\* and a load interface, a URL and an access token are given or not.
SensorOptions ==
    <<"battery_power_sensor", "pv_power_sensor", "grid_power_sensor",
      "load_power_sensor", "price_sensor">>

\* config.get(key, "")
ConfigGet(config, key) == IF key \in DOMAIN config THEN config[key] ELSE ""

\* a validation that asks for the battery sensor only
_validate_configuration_battery_only(config, load_interface) ==
    IF ConfigGet(config, "battery_power_sensor") = "" THEN "ValueError"
    ELSE IF ~load_interface /\ ConfigGet(config, "url") = "" THEN "ValueError"
    ELSE IF ~load_interface /\ ConfigGet(config, "access_token") = "" THEN "ValueError"
    ELSE "ok"

\* _validate_configuration on the attributes __init__ took from config
\* (source is "homeassistant"): "ValueError" when it raises
_validate_configuration(config, load_interface) ==
    LET missing == {i \in 1..Len(SensorOptions) : ConfigGet(config, SensorOptions[i]) = ""}
    IN  IF missing # {} THEN "ValueError"
        ELSE IF ~load_interface /\ ConfigGet(config, "url") = "" THEN "ValueError"
        ELSE IF ~load_interface /\ ConfigGet(config, "access_token") = "" THEN "ValueError"
        ELSE "ok"

\* before the constructor has run there is no engine: the engine variables
\* hold the values __init__ gives a disabled one
InitConfig ==
    /\ EngineInit
    /\ inverter = NoInverter
    /\ coordinator = NoCoordinator
    /\ ~price_calculation_enabled
    /\ \E set \in SUBSET {SensorOptions[i] : i \in 1..Len(SensorOptions)},
          sensors \in [{SensorOptions[i] : i \in 1..Len(SensorOptions)} -> {"", "sensor.id"}],
          enabled \in BOOLEAN, load_interface \in BOOLEAN,
          url \in {"", "http://ha"} :
           analysis =
               [stage |-> "config",
                config |-> [k \in set \cup {"url", "access_token", "price_calculation_enabled"} |->
                               IF k = "url" THEN url
                               ELSE IF k = "access_token" THEN "token"
                               ELSE IF k = "price_calculation_enabled" THEN enabled
                               ELSE sensors[k]],
                load_interface |-> load_interface]

\* __init__: the attributes are set and, when price calculation is enabled,
\* the configuration is validated; a ValueError leaves the caller without an
\* engine
__init__ ==
    /\ analysis.stage = "config"
    /\ LET enabled == analysis.config["price_calculation_enabled"]
           outcome ==
               IF enabled THEN _validate_configuration(analysis.config,
                                                       analysis.load_interface)
               ELSE "ok"
       IN  IF outcome = "ok"
           THEN /\ price_calculation_enabled' = enabled
                /\ last_price_calculation' = IF enabled THEN Some(now) ELSE None
                /\ analysis' = [analysis EXCEPT !.stage = "constructed"]
           ELSE /\ UNCHANGED <<price_calculation_enabled, last_price_calculation>>
                /\ analysis' = [analysis EXCEPT !.stage = outcome]
    /\ UNCHANGED <<price_euro_per_wh, battery_power_convention, last_analysis_results,
                   heap, now, run, held, failed_fetches, slow_workers, inverter, coordinator>>

\* the periodic call of update_price_if_needed on the engine that was built
constructed_update_price_if_needed(c) ==
    /\ analysis.stage = "constructed"
    /\ update_price_if_needed(c, None)

NextConfig ==
    \/ Tick
    \/ __init__
    \/ constructed_update_price_if_needed("c1")

SpecConfig == InitConfig /\ [][NextConfig]_vars

\* ---------------------------------------------------------------- inverter
\* InverterHA (src/src/interfaces/inverter_ha.py).  A service name is the list
\* of its parts between the dots (domain_service.split(".")): <<"select",
\* "select_option">> is well formed, <<"nodot">> and the missing name <<>> are
\* not.  A sequence that is None and one that is [] are both <<>>.
MaxCalls == 3

\* charge_power_w of set_mode_force_charge: None, or Some(W)
ChargeRequests == {None, Some(-500), Some(0), Some(3000), Some(5000), Some(99999)}

\* a clamp that bounds the power from above only
ClampPower_upper_only(charge_power_w, max_grid_charge_rate) ==
    IF charge_power_w = None THEN max_grid_charge_rate
    ELSE Min2(The(charge_power_w), max_grid_charge_rate)

\* charge_power_w after "if charge_power_w is None" and the clamp
ClampPower(charge_power_w, max_grid_charge_rate) ==
    IF charge_power_w = None
    THEN Min2(Max2(0, max_grid_charge_rate), max_grid_charge_rate)
    ELSE Min2(Max2(0, The(charge_power_w)), max_grid_charge_rate)

\* _call_service: False at once for a service name without a dot, else what
\* the POST to Home Assistant gives (posted: it raised no RequestException)
_call_service(service_call_config, posted) ==
    IF Len(service_call_config.service) < 2 THEN FALSE ELSE posted

\* a return that records the mode only when the sequence succeeded
Return_on_success(inv, result) ==
    [inv EXCEPT !.pc = "idle", !.result = Some(result),
                !.current_mode = IF result THEN Some(inv.mode) ELSE inv.current_mode]

\* set_mode_*: "self.current_mode = <mode>; return result"
Return(inv, result) ==
    [inv EXCEPT !.pc = "idle", !.result = Some(result),
                !.current_mode = Some(inv.mode)]

\* a set_mode_* method up to its call of _execute_sequence, and through it
\* when the sequence is empty (a warning, False, no service call)
Call(inv, mode, charge_power_w, sequence_config, variables) ==
    LET called == [inv EXCEPT !.mode = mode,
                              !.charge_power_w = charge_power_w,
                              !.sequence_config = sequence_config,
                              !.variables = variables,
                              !.step = 1,
                              !.success = TRUE,
                              !.calls = <<>>,
                              !.result = None,
                              !.n_calls = inv.n_calls + 1]
    IN  IF sequence_config = <<>> THEN Return(called, FALSE)
        ELSE [called EXCEPT !.pc = "execute"]

\* InverterHA.__init__: the state after construction
InitInverter ==
    /\ EngineInit
    /\ ~price_calculation_enabled
    /\ analysis = NoAnalysis
    /\ coordinator = NoCoordinator
    /\ \E config_charge \in {<<>>,
                              <<[service |-> <<"number", "set_value">>]>>,
                              <<[service |-> <<"number", "set_value">>],
                                [service |-> <<"select", "select_option">>]>>,
                              <<[service |-> <<"nodot">>],
                                [service |-> <<"select", "select_option">>]>>},
          config_avoid \in {<<>>, <<[service |-> <<"select", "select_option">>]>>},
          max_grid_charge_rate \in {0, 3000, 5000} :
           inverter = [pc |-> "idle",
                       config_charge |-> config_charge,
                       config_avoid |-> config_avoid,
                       config_discharge |->
                           <<[service |-> <<"switch", "turn_on">>],
                             [service |-> <<"select", "select_option">>]>>,
                       max_grid_charge_rate |-> max_grid_charge_rate,
                       current_mode |-> None,
                       \* the call in progress, or the last one: its mode, its
                       \* argument, the arguments and locals of
                       \* _execute_sequence, the calls of _call_service it
                       \* made, and its return value
                       mode |-> "none",
                       charge_power_w |-> None,
                       sequence_config |-> <<>>,
                       variables |-> None,
                       step |-> 1,
                       success |-> TRUE,
                       calls |-> <<>>,
                       result |-> None,
                       n_calls |-> 0]

set_mode_force_charge(charge_power_w) ==
    /\ inverter.pc = "idle"
    /\ inverter.n_calls < MaxCalls
    /\ inverter' = Call(inverter, "force_charge", charge_power_w, inverter.config_charge,
                        Some(ClampPower(charge_power_w, inverter.max_grid_charge_rate)))
    /\ UNCHANGED <<price_calculation_enabled, price_euro_per_wh, last_price_calculation,
                   battery_power_convention, last_analysis_results, heap, now, run, held,
                   failed_fetches, slow_workers, analysis, coordinator>>

set_mode_avoid_discharge ==
    /\ inverter.pc = "idle"
    /\ inverter.n_calls < MaxCalls
    /\ inverter' = Call(inverter, "avoid_discharge", None, inverter.config_avoid, None)
    /\ UNCHANGED <<price_calculation_enabled, price_euro_per_wh, last_price_calculation,
                   battery_power_convention, last_analysis_results, heap, now, run, held,
                   failed_fetches, slow_workers, analysis, coordinator>>

set_mode_allow_discharge ==
    /\ inverter.pc = "idle"
    /\ inverter.n_calls < MaxCalls
    /\ inverter' = Call(inverter, "allow_discharge", None, inverter.config_discharge, None)
    /\ UNCHANGED <<price_calculation_enabled, price_euro_per_wh, last_price_calculation,
                   battery_power_convention, last_analysis_results, heap, now, run, held,
                   failed_fetches, slow_workers, analysis, coordinator>>

\* a loop that gives up at the first step that fails
_execute_sequence_early_exit(posted) ==
    /\ inverter.pc = "execute"
    /\ LET step == inverter.sequence_config[inverter.step]
           ok == _call_service(step, posted)
           called == [inverter EXCEPT
                         !.calls = Append(inverter.calls,
                                          [service |-> step.service,
                                           variables |-> inverter.variables,
                                           ok |-> ok]),
                         !.success = inverter.success /\ ok,
                         !.step = inverter.step + 1]
       IN  inverter' = IF inverter.step = Len(inverter.sequence_config) \/ ~ok
                       THEN Return(called, called.success)
                       ELSE called
    /\ UNCHANGED <<price_calculation_enabled, price_euro_per_wh, last_price_calculation,
                   battery_power_convention, last_analysis_results, heap, now, run, held,
                   failed_fetches, slow_workers, analysis, coordinator>>

\* one pass of the for loop of _execute_sequence: the call of _call_service
\* for the next step; after the last step the method that called it sets
\* current_mode and returns
_execute_sequence(posted) ==
    /\ inverter.pc = "execute"
    /\ LET step == inverter.sequence_config[inverter.step]
           ok == _call_service(step, posted)
           called == [inverter EXCEPT
                         !.calls = Append(inverter.calls,
                                          [service |-> step.service,
                                           variables |-> inverter.variables,
                                           ok |-> ok]),
                         !.success = inverter.success /\ ok,
                         !.step = inverter.step + 1]
       IN  inverter' = IF inverter.step = Len(inverter.sequence_config)
                       THEN Return(called, called.success)
                       ELSE called
    /\ UNCHANGED <<price_calculation_enabled, price_euro_per_wh, last_price_calculation,
                   battery_power_convention, last_analysis_results, heap, now, run, held,
                   failed_fetches, slow_workers, analysis, coordinator>>

NextInverter ==
    \/ \E charge_power_w \in ChargeRequests : set_mode_force_charge(charge_power_w)
    \/ set_mode_avoid_discharge
    \/ set_mode_allow_discharge
    \/ \E posted \in BOOLEAN : _execute_sequence(posted)

SpecInverter == InitInverter /\ [][NextInverter]_vars

\* _identify_charging_periods on its own, under either convention, on
\* IdentifyPoints battery samples 200, 400 or 600 s apart (so that a sample comes
\* less than, exactly and more than MAX_GAP_SECONDS_IDENTIFY after the last
\* charging one) whose readings are well above, at, and below
\* charging_threshold_w for either sign
IdentifyPoints == 5

InitIdentify ==
    /\ EngineInit
    /\ inverter = NoInverter
    /\ coordinator = NoCoordinator
    /\ price_calculation_enabled
    /\ \E steps \in [1..IdentifyPoints -> {200, 400, 600} \X {3000, 50, -50, -3000}],
          convention \in Conventions :
           analysis =
               AnalysisInput([battery_power |->
                                  [i \in 1..IdentifyPoints |->
                                      Point(TimeAt(steps, i), steps[i][2])]],
                             convention, None, price_history_lookback_hours)

NextIdentify == analysis_identify_charging_periods

SpecIdentify == InitIdentify /\ [][NextIdentify]_vars

\* _split_energy_sources on its own: one event of AlignPoints points that
\* begins at 1200 s with pairs 200, 600 (the cap) and 900 s apart, whose inner
\* points charge, idle or discharge, over streams that are empty, begin before
\* the event, begin after its start, or change during it (a sample at an
\* interval start, two samples with one timestamp)
AlignPoints == 4

InitAlign ==
    /\ EngineInit
    /\ inverter = NoInverter
    /\ coordinator = NoCoordinator
    /\ price_calculation_enabled
    /\ \E gaps \in [1..(AlignPoints - 1) -> {200, 600, 900}],
          inner \in [2..(AlignPoints - 1) -> {3000, 100, -3000}],
          convention \in Conventions,
          pv_power \in {<<>>,
                        <<Point(0, 500)>>,
                        <<Point(1300, 500), Point(1500, 800)>>,
                        <<Point(900, 100), Point(1400, 200), Point(1400, 300),
                          Point(1700, 400), Point(2400, 500)>>,
                        <<Point(0, 100), Point(300, 200), Point(600, 300),
                          Point(1200, 400)>>},
          grid_power \in {<<Point(0, 0)>>, <<Point(1200, 3504), Point(1800, 0)>>},
          price_data \in {<<>>, <<Point(0, 30)>>, <<Point(1400, 30), Point(2700, 40)>>} :
           LET sign == IF convention = "negative_charging" THEN -1 ELSE 1
               at == [i \in 1..AlignPoints |->
                         1200 + TimeAt([j \in 1..(AlignPoints - 1) |-> <<gaps[j]>>], i - 1)]
               power_points ==
                   [i \in 1..AlignPoints |->
                       Point(at[i], sign * (IF i \in DOMAIN inner THEN inner[i] ELSE 3000))]
           IN  analysis =
                   [stage |-> "event",
                    event |-> [start_time |-> at[1], end_time |-> at[AlignPoints],
                               power_points |-> power_points],
                    historical_data |->
                        [battery_power |-> power_points, pv_power |-> pv_power,
                         grid_power |-> grid_power, load_power |-> <<Point(0, 504)>>,
                         price_data |-> price_data],
                    convention |-> convention,
                    intervals |-> <<>>,
                    totals |-> ZeroTotals]

\* _split_energy_sources on the event: its totals, and what each iteration of
\* its loop read and left behind
analysis_split_event ==
    /\ analysis.stage = "event"
    /\ analysis' = [analysis EXCEPT
                       !.stage = "split",
                       !.intervals =
                           SplitTrace(analysis.event.power_points, analysis.historical_data,
                                      analysis.convention, 1,
                                      [pv |-> 1, grid |-> 1, load |-> 1, price |-> 1],
                                      ZeroTotals),
                       !.totals =
                           _split_energy_sources(analysis.event, analysis.historical_data,
                                                 analysis.convention)]
    /\ UNCHANGED <<price_calculation_enabled, price_euro_per_wh, last_price_calculation,
                   battery_power_convention, last_analysis_results, heap, now, run, held,
                   failed_fetches, slow_workers, inverter, coordinator>>

NextAlign == analysis_split_event

SpecAlign == InitAlign /\ [][NextAlign]_vars

\* ------------------------------------------------ EOSDataUpdateCoordinator
\* bounds: the sends to EVCC started, the sends awaited at one time, and the
\* timer subscriptions made
MaxSends == 3
MaxPending == 2
MaxSubscriptions == 3

\* InverterMode, and the EVCC battery modes EVCC_BATTERY_*
InverterModes == {"AUTO", "STARTUP", "CHARGE_FROM_GRID", "AVOID_DISCHARGE",
                  "DISCHARGE_ALLOWED"}
EvccModes == {"charge", "hold", "normal"}

\* api_client.data as the last update and optimization left it: control is
\* None or the mode of the control state, prices_15min and prices are lists
\* of prices (in 0.1 ct), minute the time within hour 0 of the day
ApiData ==
    [control : {None} \cup {Some(m) : m \in InverterModes},
     prices_15min : {<<>>, <<10, 20, 30, 40>>, <<20, 20>>},
     prices : {<<>>, <<25>>},
     minute : {0, 20, 50}]

\* the mode _sync_evcc_battery_mode passes to _set_evcc_mode_if_changed, or
\* None when it returns before
_sync_evcc_battery_mode(self, data) ==
    IF self._refinement_15min_enabled THEN None
    ELSE IF data.control = None THEN None
    ELSE LET mode == The(data.control)
         IN  Some(IF mode = "CHARGE_FROM_GRID" THEN "charge"
                  ELSE IF mode = "AVOID_DISCHARGE" THEN "hold"
                  ELSE "normal")

\* min and max of a non-empty list of prices
MinOf(prices) == CHOOSE x \in {prices[i] : i \in DOMAIN prices} :
                     \A i \in DOMAIN prices : x <= prices[i]
MaxOf(prices) == CHOOSE x \in {prices[i] : i \in DOMAIN prices} :
                     \A i \in DOMAIN prices : x >= prices[i]

\* the mode _sync_evcc_battery_mode_15min passes on, or None when it returns
\* before (slots and hours count from 0, sequences from 1)
_sync_evcc_battery_mode_15min(self, data) ==
    IF data.control = None THEN None
    ELSE
    LET current_hour == 0
        current_15min_slot == current_hour * 4 + data.minute \div 15
        prices_15min == data.prices_15min
        prices_hourly == data.prices
    IN  IF prices_15min = <<>> \/ current_15min_slot >= Len(prices_15min) THEN None
        ELSE
        LET current_15min_price == prices_15min[current_15min_slot + 1]
            hourly_avg == IF current_hour < Len(prices_hourly)
                          THEN prices_hourly[current_hour + 1]
                          ELSE current_15min_price
            hour_start_slot == current_hour * 4
            hour_prices == IF Len(prices_15min) >= hour_start_slot + 4
                           THEN SubSeq(prices_15min, hour_start_slot + 1,
                                       hour_start_slot + 4)
                           ELSE <<>>
            hour_min == IF hour_prices # <<>> THEN MinOf(hour_prices)
                        ELSE current_15min_price
            hour_max == IF hour_prices # <<>> THEN MaxOf(hour_prices)
                        ELSE current_15min_price
            eos_mode == The(data.control)
        IN  Some(IF eos_mode = "AVOID_DISCHARGE" THEN "hold"
                 ELSE IF eos_mode = "CHARGE_FROM_GRID"
                 THEN IF current_15min_price <= hourly_avg
                         \/ current_15min_price = hour_min
                      THEN "charge" ELSE "hold"
                 ELSE IF eos_mode = "DISCHARGE_ALLOWED"
                 THEN IF current_15min_price >= hourly_avg
                         \/ current_15min_price = hour_max
                      THEN "normal" ELSE "hold"
                 \* hour_min * 1.1 and hour_max * 0.9
                 ELSE IF current_15min_price * 10 <= hour_min * 11 THEN "charge"
                 ELSE IF current_15min_price * 10 >= hour_max * 9 THEN "normal"
                 ELSE "hold")

\* a send that goes out whatever was sent before
_set_evcc_mode_if_changed_always(self, evcc_mode, by) ==
    [self EXCEPT
        !.last_request = Some([by |-> by, evcc_mode |-> evcc_mode,
                               last |-> self._last_evcc_mode, sent |-> TRUE]),
        !.pending = Append(self.pending, [by |-> by, evcc_mode |-> evcc_mode]),
        !.n_sent = self.n_sent + 1,
        !.last_send = Some([by |-> by, evcc_mode |-> evcc_mode,
                            last |-> self._last_evcc_mode,
                            refinement |-> self._refinement_15min_enabled])]

\* _set_evcc_mode_if_changed up to its await: the coordinator that called it
\* through sync `by`, with the send it started, if any, among the pending ones
_set_evcc_mode_if_changed(self, evcc_mode, by) ==
    IF Some(evcc_mode) = self._last_evcc_mode
    THEN [self EXCEPT
             !.last_request = Some([by |-> by, evcc_mode |-> evcc_mode,
                                    last |-> self._last_evcc_mode,
                                    sent |-> FALSE])]
    ELSE [self EXCEPT
             !.last_request = Some([by |-> by, evcc_mode |-> evcc_mode,
                                    last |-> self._last_evcc_mode,
                                    sent |-> TRUE]),
             !.pending = Append(self.pending, [by |-> by, evcc_mode |-> evcc_mode]),
             !.n_sent = self.n_sent + 1,
             !.last_send = Some([by |-> by, evcc_mode |-> evcc_mode,
                                 last |-> self._last_evcc_mode,
                                 refinement |-> self._refinement_15min_enabled])]

\* _async_15min_update up to the await of the send
Update15min(self, data) ==
    IF ~self._refinement_15min_enabled THEN self
    ELSE IF ~self._evcc_enabled THEN self
    ELSE LET evcc_mode == _sync_evcc_battery_mode_15min(self, data)
         IN  IF evcc_mode = None THEN self
             ELSE _set_evcc_mode_if_changed(self, The(evcc_mode), "15min")

\* room for the send a call may start
MaySend == /\ coordinator.n_sent < MaxSends
           /\ Len(coordinator.pending) < MaxPending

\* __init__ of the coordinator: EVCC and the refinement as the config entry
\* has them, no timer, no mode sent
InitCoordinator ==
    /\ EngineInit
    /\ ~price_calculation_enabled
    /\ analysis = NoAnalysis
    /\ inverter = NoInverter
    /\ \E evcc_enabled \in BOOLEAN, refinement_15min_enabled \in BOOLEAN :
           coordinator =
               [pc |-> "running",
                _evcc_enabled |-> evcc_enabled,
                _refinement_15min_enabled |-> refinement_15min_enabled,
                _15min_unsub |-> None,
                _last_evcc_mode |-> None,
                \* the interval subscriptions that are active in hass, the
                \* number made so far, and the last call of
                \* async_set_15min_refinement
                subscriptions |-> {},
                n_subscribed |-> 0,
                last_call |-> None,
                \* the sends that are awaited, the number started so far, the
                \* last mode a sync asked for, the last send started and the
                \* last one that came back
                pending |-> <<>>,
                n_sent |-> 0,
                last_request |-> None,
                last_send |-> None,
                last_result |-> None]

\* a call that subscribes without looking at _15min_unsub
async_set_15min_refinement_resubscribes(enabled, data) ==
    /\ coordinator.pc = "running"
    /\ enabled => MaySend /\ coordinator.n_subscribed < MaxSubscriptions
    /\ LET self == [coordinator EXCEPT !._refinement_15min_enabled = enabled,
                                       !.last_call = Some(enabled)]
           id == coordinator.n_subscribed + 1
       IN  coordinator' =
               IF enabled
               THEN Update15min([self EXCEPT !._15min_unsub = Some(id),
                                             !.subscriptions = @ \cup {id},
                                             !.n_subscribed = id],
                                data)
               ELSE IF self._15min_unsub # None
               THEN [self EXCEPT !._15min_unsub = None,
                                 !.subscriptions = @ \ {The(self._15min_unsub)}]
               ELSE self
    /\ UNCHANGED <<price_calculation_enabled, price_euro_per_wh, last_price_calculation,
                   battery_power_convention, last_analysis_results, heap, now, run, held,
                   failed_fetches, slow_workers, analysis, inverter>>

\* async_set_15min_refinement(enabled) up to its await; data is what
\* api_client.data holds when the immediate update runs
async_set_15min_refinement(enabled, data) ==
    /\ coordinator.pc = "running"
    /\ enabled => MaySend /\ coordinator.n_subscribed < MaxSubscriptions
    /\ LET self == [coordinator EXCEPT !._refinement_15min_enabled = enabled,
                                       !.last_call = Some(enabled)]
           id == coordinator.n_subscribed + 1
       IN  coordinator' =
               IF enabled
               THEN IF self._15min_unsub = None
                    THEN Update15min([self EXCEPT !._15min_unsub = Some(id),
                                                  !.subscriptions = @ \cup {id},
                                                  !.n_subscribed = id],
                                     data)
                    ELSE self
               ELSE IF self._15min_unsub # None
               THEN [self EXCEPT !._15min_unsub = None,
                                 !.subscriptions = @ \ {The(self._15min_unsub)}]
               ELSE self
    /\ UNCHANGED <<price_calculation_enabled, price_euro_per_wh, last_price_calculation,
                   battery_power_convention, last_analysis_results, heap, now, run, held,
                   failed_fetches, slow_workers, analysis, inverter>>

\* an interval subscription that is active fires _async_15min_update
_async_15min_update(data) ==
    /\ coordinator.pc = "running"
    /\ coordinator.subscriptions # {}
    /\ MaySend
    /\ coordinator' = Update15min(coordinator, data)
    /\ UNCHANGED <<price_calculation_enabled, price_euro_per_wh, last_price_calculation,
                   battery_power_convention, last_analysis_results, heap, now, run, held,
                   failed_fetches, slow_workers, analysis, inverter>>

\* _async_update_data once the update and the optimization have come back
\* with data: the hourly sync, up to the await of the send
_async_update_data(data) ==
    /\ coordinator.pc = "running"
    /\ MaySend
    /\ coordinator' =
           IF coordinator._evcc_enabled
           THEN LET evcc_mode == _sync_evcc_battery_mode(coordinator, data)
                IN  IF evcc_mode = None THEN coordinator
                    ELSE _set_evcc_mode_if_changed(coordinator, The(evcc_mode), "hourly")
           ELSE coordinator
    /\ UNCHANGED <<price_calculation_enabled, price_euro_per_wh, last_price_calculation,
                   battery_power_convention, last_analysis_results, heap, now, run, held,
                   failed_fetches, slow_workers, analysis, inverter>>

\* the rest of _set_evcc_mode_if_changed: api_client.async_set_evcc_battery_mode
\* comes back for pending send i with True, False or an exception
async_set_evcc_battery_mode_returns(i, outcome) ==
    /\ coordinator.pc = "running"
    /\ i \in 1..Len(coordinator.pending)
    /\ LET send == coordinator.pending[i]
       IN  coordinator' =
               [coordinator EXCEPT
                   !.pending = SubSeq(@, 1, i - 1) \o SubSeq(@, i + 1, Len(@)),
                   !._last_evcc_mode =
                       IF outcome = "True" THEN Some(send.evcc_mode) ELSE @,
                   !.last_result = Some([by |-> send.by, evcc_mode |-> send.evcc_mode,
                                         outcome |-> outcome,
                                         before |-> coordinator._last_evcc_mode])]
    /\ UNCHANGED <<price_calculation_enabled, price_euro_per_wh, last_price_calculation,
                   battery_power_convention, last_analysis_results, heap, now, run, held,
                   failed_fetches, slow_workers, analysis, inverter>>

NextCoordinator ==
    \/ \E enabled \in BOOLEAN, data \in ApiData : async_set_15min_refinement(enabled, data)
    \/ \E data \in ApiData : _async_15min_update(data)
    \/ \E data \in ApiData : _async_update_data(data)
    \/ \E i \in 1..MaxPending, outcome \in {"True", "False", "raises"} :
           async_set_evcc_battery_mode_returns(i, outcome)

SpecCoordinator == InitCoordinator /\ [][NextCoordinator]_vars

\* one recompute task, as section 5 of the specification has it
Next ==
    \/ Tick
    \/ Recompute("c1")
    \/ Faults("c1")

Spec == Init /\ [][Next]_vars

\* the recompute task with the thread of its caller scheduled: every step of
\* the caller is taken in the end, a join at the latest when its timeout is
\* over; a worker that timed out need never finish
LiveHistories == {"grid", "idle"}

LiveRecompute(c) ==
    \/ update_price_if_needed(c, None)
    \/ \E h \in LiveHistories : start_fetch(c, h)
    \/ join_finished(c, FALSE)
    \/ check_battery_data(c)
    \/ detect_convention(c)
    \/ set_convention(c)
    \/ identify_charging_periods(c)
    \/ split_event(c)
    \/ aggregate(c)
    \/ apply_new_price(c)

NextLive ==
    \/ Tick
    \/ LiveRecompute("c1")
    \/ Faults("c1")

SpecLive ==
    Init /\ [][NextLive]_vars /\ WF_vars(LiveRecompute("c1") \/ join_timeout("c1"))

\* the recompute task and the readers of the results
NextReaders ==
    \/ Tick
    \/ Recompute("c1")
    \/ fetch_raises("c1")
    \/ raise_exception("c1")
    \/ ReaderStep

SpecReaders == Init /\ [][NextReaders]_vars

\* update_price_if_needed called from two threads, every fetch in time
ConcurrentHistories == {"grid", "evcc"}

Concurrent(c) ==
    \/ update_price_if_needed(c, None)
    \/ \E h \in ConcurrentHistories : start_fetch(c, h)
    \/ join_finished(c, FALSE)
    \/ check_battery_data(c)
    \/ detect_convention(c)
    \/ set_convention(c)
    \/ identify_charging_periods(c)
    \/ split_event(c)
    \/ aggregate(c)
    \/ apply_new_price(c)

NextConcurrent ==
    \/ Tick
    \/ \E c \in Callers : Concurrent(c)

SpecConcurrent == Init /\ [][NextConcurrent]_vars

\* -------------------------------------------------------------- properties
RECURSIVE SumOf(_, _)
SumOf(sessions, field) ==
    IF sessions = <<>> THEN 0
    ELSE sessions[1][field] + SumOf(Tail(sessions), field)

\* the sessions of the analysis once the events have been split
AnalysedSessions ==
    IF analysis.stage = "sessions" THEN analysis.all_sessions_data
    ELSE IF analysis.stage = "costs" THEN analysis.walk.sessions
    ELSE <<>>

\* C1: in every session the analysis produces, under either convention, the
\* energy attributed to PV plus the energy attributed to the grid is at most
\* the battery energy integrated for the event.
C1_NoDoubleCounting ==
    \A i \in 1..Len(AnalysedSessions) :
        AnalysedSessions[i].charged_from_pv + AnalysedSessions[i].charged_from_grid
            <= AnalysedSessions[i].charged_energy

\* a session of a negative-is-charging battery fed by PV and by the grid
C1_Witness ==
    /\ analysis.stage = "sessions"
    /\ analysis.convention = "negative_charging"
    /\ \E i \in 1..Len(analysis.all_sessions_data) :
           /\ analysis.all_sessions_data[i].charged_from_pv > 0
           /\ analysis.all_sessions_data[i].charged_from_grid > 0
           /\ Len(analysis.charging_events[i].power_points) > 3

\* C2: after an aggregation with target inventory_wh = V the inventory_energy
\* of all sessions sums to at most V, and to exactly V when the sessions that
\* entered the aggregation hold at least V.
C2_InventoryBounded ==
    (analysis.stage = "costs" /\ analysis.inventory_wh # None) =>
        LET V == The(analysis.inventory_wh)
            used == SumOf(analysis.walk.sessions, "inventory_energy")
            available == SumOf(analysis.all_sessions_data, "charged_energy")
        IN  /\ used <= V
            /\ available >= V => used = V
            /\ Len(analysis.walk.sessions) = Len(analysis.all_sessions_data)

\* three sessions hold more than the target and the last marked one is cut
C2_Witness ==
    /\ analysis.stage = "costs"
    /\ analysis.inventory_wh = Some(200)
    /\ Len(analysis.walk.sessions) = 3
    /\ SumOf(analysis.all_sessions_data, "charged_energy") > 200
    /\ SumOf(analysis.walk.sessions, "inventory_energy") = 200
    /\ \E i \in 1..3 :
           /\ analysis.walk.sessions[i].is_inventory
           /\ analysis.walk.sessions[i].inventory_energy
                  < analysis.walk.sessions[i].charged_energy

\* the charged energy of the walked sessions that end after end_time
NewerEnergy(sessions, end_time) ==
    SumOf(SelectSeq(sessions, LAMBDA x : x.end_time > end_time), "charged_energy")

\* C3: the walk consumes the sessions most recent first by end time: every
\* session newer than a marked one is marked and counted whole, a marked
\* session gets what the newer ones left of the target (at most its own
\* energy), and a session that is not marked has inventory_energy 0.
C3_MostRecentFirst ==
    (analysis.stage = "costs" /\ analysis.inventory_wh # None) =>
        LET V == The(analysis.inventory_wh)
            sessions == analysis.walk.sessions
        IN  \A i \in 1..Len(sessions) :
                LET newer == NewerEnergy(sessions, sessions[i].end_time)
                IN  /\ sessions[i].is_inventory <=> newer < V
                    /\ sessions[i].is_inventory =>
                           sessions[i].inventory_energy =
                               Min2(sessions[i].charged_energy, V - newer)
                    /\ ~sessions[i].is_inventory => sessions[i].inventory_energy = 0
                    /\ \A j \in 1..Len(sessions) :
                           (sessions[j].is_inventory
                            /\ sessions[i].end_time > sessions[j].end_time) =>
                               /\ sessions[i].is_inventory
                               /\ sessions[i].inventory_energy = sessions[i].charged_energy

\* the newest session whole, the next one in part, the oldest untouched
C3_Witness ==
    /\ analysis.stage = "costs"
    /\ analysis.inventory_wh = Some(100)
    /\ \E i, j, k \in 1..Len(analysis.walk.sessions) :
           LET sessions == analysis.walk.sessions
           IN  /\ sessions[i].end_time > sessions[j].end_time
               /\ sessions[j].end_time > sessions[k].end_time
               /\ sessions[i].is_inventory
               /\ sessions[i].inventory_energy = sessions[i].charged_energy
               /\ sessions[j].is_inventory
               /\ sessions[j].inventory_energy < sessions[j].charged_energy
               /\ ~sessions[k].is_inventory
               /\ sessions[k].inventory_energy = 0

\* C7: when the total energy after the aggregation is zero the analysis
\* divides nothing by zero and returns the price the engine holds, which is
\* not zero.
C7_ZeroEnergyKeepsPrice ==
    (analysis.stage = "costs" /\ analysis.results.total_energy_charged = 0) =>
        /\ ~analysis.results.raised
        /\ analysis.returned = Some(price_euro_per_wh)
        /\ get_current_price # RatInt(0)

\* an inventory of 0 Wh leaves sessions that hold energy untouched
C7_Witness ==
    /\ analysis.stage = "costs"
    /\ analysis.inventory_wh = Some(0)
    /\ Len(analysis.all_sessions_data) >= 2
    /\ analysis.results.total_energy_charged = 0
    /\ analysis.returned = Some(price_euro_per_wh)

\* the callers inside calculate_battery_price_from_history
Analysing == {c \in Callers : run[c].pc \notin {"idle", "apply"}}

\* C4: two analyses never run at the same time against the engine: a call of
\* update_price_if_needed made while another caller's recompute is in
\* progress starts no second analysis.
C4_SingleFlight == Cardinality(Analysing) <= 1

\* C5: a result dict a reader holds is never changed: the engine replaces
\* last_analysis_results only by a new dict, on every path.
C5_ResultsNeverChangeInPlace ==
    [][\A r \in Readers :
           (held[r] # None /\ held'[r] = held[r]) =>
               heap'[The(held[r])] = heap[The(held[r])]]_vars

C8_IntervalGate ==
    [][\A c \in Callers :
           /\ (run[c].pc = "idle" /\ run'[c].pc # "idle") =>
                  /\ price_calculation_enabled
                  /\ last_price_calculation # None =>
                         now - The(last_price_calculation) >= price_update_interval
           /\ (run[c].pc = "idle" /\ run'[c] # run[c] /\ price_calculation_enabled
               /\ last_price_calculation # None
               /\ now - The(last_price_calculation) >= price_update_interval) =>
                  run'[c].pc = "fetch"
           /\ last_price_calculation' # last_price_calculation =>
                  \E d \in Callers :
                      /\ run[d].pc = "apply"
                      /\ run[d].new_price # None
                      /\ last_price_calculation' = Some(now)
           /\ (run[c].pc = "apply" /\ run[c].new_price = None /\ run'[c].pc = "idle") =>
                  last_price_calculation' = last_price_calculation]_vars

\* a recompute that returned no price ends one interval after a successful one
C8_Witness ==
    /\ run["c1"].pc = "apply"
    /\ run["c1"].new_price = None
    /\ last_price_calculation = Some(TickSeconds)
    /\ now = 2 * TickSeconds

\* C9: once a recompute has set the convention no later recompute changes
\* it, whatever history it fetched.
C9_ConventionSticky ==
    [][battery_power_convention # NoConvention =>
           battery_power_convention' = battery_power_convention]_vars

\* C10: when the fetch of the parallel fetch hands its result to the
\* recompute, a signal whose join timed out has no samples.
C10_TimedOutSignalEmpty ==
    \A c \in Callers, key \in KeySet :
        (run[c].pc = "check" /\ <<"timeout", key>> \in run[c].warnings) =>
            Get(Data(run[c]), key) = <<>>

\* the samples of every signal a recompute works on, whatever their order
UsedSeries(r) ==
    [k \in KeySet |-> {Get(Data(r), k)[i] : i \in 1..Len(Get(Data(r), k))}]

\* the positions of a caller between the return of the fetch and the return
\* of calculate_battery_price_from_history
AnalysisPcs == {"check", "detect", "set_convention", "identify", "split"}

\* C11: once the parallel fetch has handed its series to the analysis, the
\* series of that recompute do not change any more: no worker adds or
\* replaces the series of a signal after the wait phase.
C11_SeriesFixedAfterFanIn ==
    [][\A c \in Callers :
           (run[c].pc \in AnalysisPcs /\ run'[c].pc \in AnalysisPcs) =>
               UsedSeries(run'[c]) = UsedSeries(run[c])]_vars

\* C12: every recompute ends: a call of update_price_if_needed returns,
\* whether the analysis succeeds or fails and whether or not the workers of
\* the fetch answer.
C12_RecomputeEnds == (run["c1"].pc # "idle") ~> (run["c1"].pc = "idle")

\* a recompute is about to return although the battery worker never answered
C12_Witness ==
    /\ run["c1"].pc = "apply"
    /\ <<"timeout", "battery_power">> \in run["c1"].warnings
    /\ <<"no_battery_data">> \in run["c1"].warnings

\* the signals whose fetch raised during the step
FetchFailedNow(c) ==
    {key \in KeySet : /\ <<"fetch_failed", key>> \in run'[c].warnings
                      /\ <<"fetch_failed", key>> \notin run[c].warnings}

\* C13: when the fetch of one signal raises, that signal's series is stored
\* empty and a warning is logged, the series of the other signals stay as they
\* were, and the recompute goes on: the failure of a signal other than the
\* battery power does not stop it at the test of the battery data.
C13_FailedFetchDegradesOneSignal ==
    [][\A c \in Callers :
           /\ \A key \in FetchFailedNow(c) :
                  /\ run'[c].historical_data # None
                  /\ key \in DOMAIN Data(run'[c])
                  /\ Data(run'[c])[key] = <<>>
                  /\ \A k \in DOMAIN Data(run[c]) \ {key} :
                         /\ k \in DOMAIN Data(run'[c])
                         /\ Data(run'[c])[k] = Data(run[c])[k]
                  /\ run'[c].pc \in {"join"} \cup AnalysisPcs
           /\ (/\ run[c].pc = "check" /\ run'[c].pc # "check"
               /\ ~NoBatteryData(run[c])
               /\ <<"error">> \notin run'[c].warnings)
                  => run'[c].pc = "detect"]_vars

\* the analysis splits a charging event although the fetch of the grid power
\* raised
C13_Witness ==
    /\ run["c1"].pc = "split"
    /\ run["c1"].charging_events # <<>>
    /\ <<"fetch_failed", "grid_power">> \in run["c1"].warnings
    /\ Get(Data(run["c1"]), "grid_power") = <<>>
    /\ Get(Data(run["c1"]), "pv_power") # <<>>

\* C14: a recompute whose battery-power history is empty or missing aborts at
\* the test of the battery data, before any event is reconstructed: it hands
\* back no price, the current price stays, the time of the attempt is written
\* to last_update of the analysis result, and update_price_if_needed returns
\* False without touching the price.
C14_NoBatteryDataAborts ==
    [][\A c \in Callers :
           /\ (/\ run[c].pc = "check" /\ run'[c].pc # "check"
               /\ NoBatteryData(run[c])
               /\ <<"error">> \notin run'[c].warnings)
                  => /\ run'[c].pc = "apply"
                     /\ run'[c].new_price = None
                     /\ <<"no_battery_data">> \in run'[c].warnings
                     /\ price_euro_per_wh' = price_euro_per_wh
                     /\ heap'[last_analysis_results'].last_update = Some(now)
           /\ (/\ run[c].pc = "apply" /\ run'[c].pc = "idle"
               /\ <<"no_battery_data">> \in run[c].warnings)
                  => /\ run'[c].ret = "False"
                     /\ price_euro_per_wh' = price_euro_per_wh
                     /\ last_price_calculation' = last_price_calculation]_vars

\* a recompute without battery history is about to return, at a time after
\* the construction, and the result carries that time
C14_Witness ==
    /\ run["c1"].pc = "apply"
    /\ run["c1"].new_price = None
    /\ <<"no_battery_data">> \in run["c1"].warnings
    /\ <<"fetch_failed", "battery_power">> \in run["c1"].warnings
    /\ now > 0
    /\ heap[last_analysis_results].last_update = Some(now)

\* the step in which caller c, with battery history present, finds no
\* charging event
NoEventsStep(c) ==
    /\ run[c].pc = "identify" /\ run'[c].pc # "identify"
    /\ ~NoBatteryData(run[c])
    /\ ChargingEvents(Data(run[c]), battery_power_convention) = <<>>
    /\ <<"error">> \notin run'[c].warnings

\* what C15 says of that step and of the return that follows it, up to the
\* stored price: the recompute hands back the current price, the price
\* stays, a new result replaces the last one, its energies and its ratio are
\* 0 and its session list is empty; the call returns True (a failed
\* calculation returns False and replaces nothing)
NoEventsOutcome(c) ==
    /\ NoEventsStep(c) =>
           /\ run'[c].pc = "apply"
           /\ run'[c].new_price = Some(price_euro_per_wh)
           /\ price_euro_per_wh' = price_euro_per_wh
           /\ last_analysis_results' # last_analysis_results
           /\ heap'[last_analysis_results'].charged_energy = 0
           /\ heap'[last_analysis_results'].charged_from_pv = 0
           /\ heap'[last_analysis_results'].charged_from_grid = 0
           /\ heap'[last_analysis_results'].ratio = 0
           /\ heap'[last_analysis_results'].charging_sessions = <<>>
           /\ heap'[last_analysis_results'].last_update = Some(now)
    /\ (/\ run[c].pc = "apply" /\ run'[c].pc = "idle"
        /\ run[c].new_price # None
        /\ heap[last_analysis_results].charging_sessions = <<>>)
           => /\ run'[c].ret = "True"
              /\ price_euro_per_wh' = price_euro_per_wh

\* C15 as stated: with battery history present and no charging event found,
\* the price stays and the last result is replaced by a zero-valued one whose
\* stored price equals the current price.
C15_NoEventsStoresCurrentPrice ==
    [][\A c \in Callers :
           /\ NoEventsOutcome(c)
           /\ NoEventsStep(c) =>
                  RatInt(heap'[last_analysis_results'].stored_energy_price)
                      = RatMul(price_euro_per_wh, RatInt(10))]_vars

\* C15, amended: with battery history present and no charging event found,
\* the price stays and the last result is replaced by a zero-valued one whose
\* stored price is the current price rounded to 6 decimals.
C15_NoEventsStoresRoundedPrice ==
    [][\A c \in Callers :
           /\ NoEventsOutcome(c)
           /\ NoEventsStep(c) =>
                  heap'[last_analysis_results'].stored_energy_price
                      = Round6(price_euro_per_wh)]_vars

\* a recompute that found no charging event is about to return, after an
\* earlier recompute has left a price with more than 6 decimals
C15_Witness ==
    /\ run["c1"].pc = "apply"
    /\ run["c1"].new_price = Some(price_euro_per_wh)
    /\ run["c1"].warnings = {}
    /\ heap[last_analysis_results].charging_sessions = <<>>
    /\ heap[last_analysis_results].charged_energy = 0
    /\ heap[last_analysis_results].last_update = Some(now)
    /\ RatInt(Round6(price_euro_per_wh)) # RatMul(price_euro_per_wh, RatInt(10))

\* the priority rule for a charging battery, written from its outcome: what
\* PV has left after the load, what of the load PV leaves to the grid, what
\* the grid has left after that; the battery takes from the PV surplus, the
\* grid gives the rest up to its surplus when that surplus is above
\* grid_charge_threshold_w, and whatever the grid does not give counts as PV
PriorityRule(battery_power, pv_power, grid_power, load_power) ==
    LET pv_surplus == IF pv_power > load_power THEN pv_power - load_power ELSE 0
        unmet_load == IF load_power > pv_power THEN load_power - pv_power ELSE 0
        grid_surplus == IF grid_power > unmet_load THEN grid_power - unmet_load ELSE 0
        from_pv == IF battery_power < pv_surplus THEN battery_power ELSE pv_surplus
        wanted == battery_power - from_pv
        from_grid ==
            IF grid_surplus <= grid_charge_threshold_w THEN 0
            ELSE IF wanted < grid_surplus THEN wanted ELSE grid_surplus
    IN  [pv_to_bat |-> battery_power - from_grid, grid_to_bat |-> from_grid]

\* C16: for battery power >= 0, _calculate_power_split is the priority rule:
\* PV serves the load first and the grid the unmet load; the battery draws
\* from PV surplus first, then from grid surplus only if that surplus is
\* strictly above grid_charge_threshold_w, and the battery power still
\* unexplained goes to the PV share. (3000, 0, 3500, 500) gives (0, 3000)
\* and (3000, 2000, 2000, 500) gives (1500, 1500).
C16_PowerSplitIsPriorityRule ==
    (analysis.stage = "power_split" /\ analysis.battery_power >= 0) =>
        /\ analysis.split = PriorityRule(analysis.battery_power, analysis.pv_power,
                                         analysis.grid_power, analysis.load_power)
        /\ (/\ analysis.battery_power = 3000 /\ analysis.pv_power = 0
            /\ analysis.grid_power = 3500 /\ analysis.load_power = 500)
               => analysis.split = [pv_to_bat |-> 0, grid_to_bat |-> 3000]
        /\ (/\ analysis.battery_power = 3000 /\ analysis.pv_power = 2000
            /\ analysis.grid_power = 2000 /\ analysis.load_power = 500)
               => analysis.split = [pv_to_bat |-> 1500, grid_to_bat |-> 1500]

\* the split of a battery power between a PV surplus and a grid surplus that
\* are both smaller than it
C16_Witness ==
    /\ analysis.stage = "power_split"
    /\ analysis.battery_power = 3000 /\ analysis.pv_power = 2000
    /\ analysis.grid_power = 2000 /\ analysis.load_power = 500
    /\ analysis.split = [pv_to_bat |-> 1500, grid_to_bat |-> 1500]

\* C17: with an empty grid series the split of a charging event does not
\* fail: it gives grid_to_battery_wh = 0 and puts the whole battery energy of
\* the event on PV (pv_to_battery_wh = total_battery_wh), also when PV
\* produces nothing.
C17_EmptyGridAllToPv ==
    \A c \in Callers :
        (/\ run[c].pc = "split"
         /\ run[c].event_index <= Len(run[c].charging_events)
         /\ Get(Data(run[c]), "grid_power") = <<>>)
            => LET event_totals ==
                       _split_energy_sources(run[c].charging_events[run[c].event_index],
                                             Data(run[c]), battery_power_convention)
               IN  /\ DOMAIN event_totals = DOMAIN ZeroTotals
                   /\ event_totals.grid_to_battery_wh = 0
                   /\ event_totals.pv_to_battery_wh = event_totals.total_battery_wh

\* an event of 250 Wh has been split with the grid series empty and no PV
\* production, and its session is all PV
C17_Witness ==
    /\ run["c1"].pc = "split"
    /\ Get(Data(run["c1"]), "grid_power") = <<>>
    /\ \A i \in 1..Len(Get(Data(run["c1"]), "pv_power")) :
           Get(Data(run["c1"]), "pv_power")[i].value = 0
    /\ Get(Data(run["c1"]), "pv_power") # <<>>
    /\ run["c1"].all_sessions_data # <<>>
    /\ run["c1"].all_sessions_data[1].charged_energy > 0
    /\ run["c1"].all_sessions_data[1].charged_from_pv
           = run["c1"].all_sessions_data[1].charged_energy
    /\ run["c1"].all_sessions_data[1].charged_from_grid = 0

\* C18: splitting a charging event while the grid series is empty logs a
\* warning that reports the missing grid sensor data and the possible
\* misattribution of the energy to PV.
C18_EmptyGridWarns ==
    [][\A c \in Callers :
           (/\ run[c].pc = "split" /\ run'[c].pc = "split"
            /\ run'[c].event_index = run[c].event_index + 1
            /\ Len(run[c].charging_events[run[c].event_index].power_points) >= 2
            /\ Get(Data(run[c]), "grid_power") = <<>>)
               => <<"missing_sensor_data", "grid_power">> \in run'[c].warnings]_vars

\* the events of the analysis with fewer than 2 samples after the trim
ShortEvents ==
    {i \in 1..Len(analysis.charging_events) :
         Len(analysis.charging_events[i].power_points) < 2}

\* C19: a charging event whose trimmed point sequence has fewer than 2
\* samples contributes zero to every total of the split, has no session in
\* the session list, and the aggregated totals are those of the other events
\* alone.
C19_ShortEventContributesNothing ==
    (analysis.stage \in {"sessions", "costs"}) =>
        /\ \A i \in ShortEvents :
               /\ _split_energy_sources(analysis.charging_events[i],
                                        analysis.historical_data, analysis.convention)
                      = ZeroTotals
               /\ \A j \in 1..Len(AnalysedSessions) :
                      AnalysedSessions[j].start_time
                          # analysis.charging_events[i].start_time
               /\ analysis.stage = "costs" =>
                      \A j \in 1..Len(analysis.results.sessions) :
                          analysis.results.sessions[j].start_time
                              # analysis.charging_events[i].start_time
        /\ analysis.stage = "costs" =>
               analysis.results =
                   _calculate_total_costs(
                       SelectSeq(analysis.charging_events,
                                 LAMBDA e : Len(e.power_points) >= 2),
                       analysis.historical_data, analysis.lookback_hours,
                       analysis.inventory_wh, analysis.convention, AnalysisNow)

\* an analysis has aggregated a one-sample event that lies inside the
\* lookback window together with an event that charged
C19_Witness ==
    /\ analysis.stage = "costs"
    /\ \E i \in ShortEvents :
           analysis.charging_events[i].end_time
               >= AnalysisNow - analysis.lookback_hours * SECONDS_PER_HOUR
    /\ analysis.results.total_energy_charged > 0
    /\ Len(analysis.results.sessions) < Len(analysis.charging_events)

\* the second run of the aggregation gave what the first gave: the same
\* price, the same totals and the same sessions with the same inventory marks
SameAgain ==
    /\ The(analysis.again).results = analysis.results
    /\ The(analysis.again).returned = analysis.returned

\* the events the aggregation leaves out because they ended before the
\* lookback window, at a clock reading later by the delay
OutOfWindow(later) ==
    {i \in 1..Len(analysis.charging_events) :
         analysis.charging_events[i].end_time
             < AnalysisNow + later - analysis.lookback_hours * SECONDS_PER_HOUR}

RECURSIVE RatSum(_)
RatSum(s) ==
    IF s = <<>> THEN RatInt(0)
    ELSE ByValue(LAMBDA front : RatAdd(front, s[Len(s)]),
                 RatSum(SubSeq(s, 1, Len(s) - 1)))

\* the sum of a sequence of integers
RECURSIVE IntSum(_)
IntSum(s) == IF s = <<>> THEN 0 ELSE s[1] + IntSum(Tail(s))

\* the walked sessions that take part in the price of the analysis, and the
\* energy each of them is used with
Participates(session) == analysis.inventory_wh = None \/ session.is_inventory
EnergyUsed(session) ==
    IF analysis.inventory_wh # None THEN session.inventory_energy
    ELSE session.charged_energy

\* C21: the weighted price is total cost divided by total energy, where each
\* participating session contributes cost * (energy_used / charged_energy) to
\* the cost and energy_used to the energy; when a single session covers the
\* inventory, wholly or in part, the weighted price is that session's unit
\* price cost / charged_energy.
C21_WeightedPriceIsCostPerEnergy ==
    (analysis.stage = "costs" /\ ~analysis.results.raised) =>
        LET sessions == SelectSeq(analysis.walk.sessions, Participates)
            costs ==
                [i \in 1..Len(sessions) |->
                    RatMul(sessions[i].cost,
                           Rat(EnergyUsed(sessions[i]), sessions[i].charged_energy))]
            energies == [i \in 1..Len(sessions) |-> EnergyUsed(sessions[i])]
            results == analysis.results
        IN  /\ results.total_cost = RatSum(costs)
            /\ results.total_energy_charged = IntSum(energies)
            /\ results.total_energy_charged > 0 =>
                   analysis.returned =
                       Some(RatDiv(results.total_cost,
                                   RatInt(results.total_energy_charged)))
            /\ Len(sessions) = 1 =>
                   analysis.returned =
                       Some(Rat(sessions[1].cost.n,
                                sessions[1].cost.d * sessions[1].charged_energy))

\* of two sessions with a grid cost the newer alone covers the inventory, in
\* part, and the price returned is its unit price
C21_Witness ==
    /\ analysis.stage = "costs"
    /\ analysis.inventory_wh = Some(100)
    /\ Len(analysis.walk.sessions) = 2
    /\ Len(SelectSeq(analysis.walk.sessions, Participates)) = 1
    /\ \E i \in 1..2 :
           LET session == analysis.walk.sessions[i]
           IN  /\ session.is_inventory
               /\ session.inventory_energy < session.charged_energy
               /\ session.cost.n > 0
               /\ analysis.returned =
                      Some(Rat(session.cost.n, session.cost.d * session.charged_energy))

\* C22: when inventory_wh is None every qualifying session takes part in the
\* price at full weight: its whole charged_energy and its whole cost enter
\* the totals, and the total energy is the sum of charged_energy over all
\* sessions of the result.
C22_AllHistoryFullWeight ==
    (analysis.stage = "costs" /\ analysis.inventory_wh = None) =>
        LET sessions == analysis.walk.sessions
            results == analysis.results
        IN  /\ Len(sessions) = Len(analysis.all_sessions_data)
            /\ Len(results.sessions) = Len(sessions)
            /\ results.total_energy_charged = SumOf(sessions, "charged_energy")
            /\ results.total_energy_charged * 10 = SumOf(results.sessions, "charged_energy")
            /\ results.total_cost = RatSum([i \in 1..Len(sessions) |-> sessions[i].cost])
            /\ results.total_pv_energy = RatInt(SumOf(sessions, "charged_from_pv"))
            /\ results.total_grid_energy = RatInt(SumOf(sessions, "charged_from_grid"))

\* an all-history analysis of three sessions that cost something
C22_Witness ==
    /\ analysis.stage = "costs"
    /\ analysis.inventory_wh = None
    /\ Len(analysis.walk.sessions) = 3
    /\ \A i \in 1..3 : analysis.walk.sessions[i].cost.n > 0
    /\ analysis.results.total_energy_charged
           = SumOf(analysis.walk.sessions, "charged_energy")
    /\ analysis.results.total_energy_charged > 0

\* the event a caller is about to split, if any
Splitting(c) ==
    /\ run[c].pc = "split"
    /\ run[c].event_index <= Len(run[c].charging_events)

\* the totals of the event caller c is about to split, with the series of key
\* replaced by series
SplitWith(c, key, series) ==
    _split_energy_sources(run[c].charging_events[run[c].event_index],
                          Put(Data(run[c]), key, series), battery_power_convention)

\* the totals _split_energy_sources gives for that event on the fetched data
SplitNow(c) ==
    _split_energy_sources(run[c].charging_events[run[c].event_index],
                          Data(run[c]), battery_power_convention)

\* a series that reads zero in every interval
ZeroSeries == <<Point(0, 0)>>

\* a price series that reads, in every interval of the event caller c is about
\* to split, the fallback price of the hour in which the interval starts
FallbackSeries(c) ==
    LET power_points == run[c].charging_events[run[c].event_index].power_points
    IN  [i \in 1..Len(power_points) |->
            Point(power_points[i].timestamp,
                  _get_fallback_price(power_points[i].timestamp))]

\* C23 as stated: when the PV, grid, load or price series is missing or
\* empty, splitting still runs and uses the value zero for that signal in
\* every interval of every event.
C23_MissingSignalIsZero ==
    \A c \in Callers :
        Splitting(c) =>
            \A key \in {"pv_power", "grid_power", "load_power", "price_data"} :
                Get(Data(run[c]), key) = <<>> =>
                    /\ DOMAIN SplitNow(c) = DOMAIN ZeroTotals
                    /\ SplitNow(c) = SplitWith(c, key, ZeroSeries)

\* C23, amended: when the PV, grid or load series is missing or empty,
\* splitting still runs and uses the value zero for that signal in every
\* interval of every event; when the price series is missing or empty it uses
\* the fallback price of the hour of day in which the interval starts.
C23_MissingSignalIsZeroOrFallbackPrice ==
    \A c \in Callers :
        Splitting(c) =>
            /\ \A key \in {"pv_power", "grid_power", "load_power"} :
                   Get(Data(run[c]), key) = <<>> =>
                       /\ DOMAIN SplitNow(c) = DOMAIN ZeroTotals
                       /\ SplitNow(c) = SplitWith(c, key, ZeroSeries)
            /\ Get(Data(run[c]), "price_data") = <<>> =>
                   /\ DOMAIN SplitNow(c) = DOMAIN ZeroTotals
                   /\ SplitNow(c) = SplitWith(c, "price_data", FallbackSeries(c))

\* an event that charges from the grid is about to be split with the price
\* series empty and the load series missing, and its grid energy has a cost
C23_Witness ==
    /\ Splitting("c1")
    /\ "price_data" \in DOMAIN Data(run["c1"])
    /\ Get(Data(run["c1"]), "price_data") = <<>>
    /\ "load_power" \notin DOMAIN Data(run["c1"])
    /\ SplitNow("c1").grid_to_battery_wh > 0
    /\ SplitNow("c1").grid_cost_euro > 0
    /\ SplitNow("c1").total_load_wh = 0

MissingSensors ==
    {i \in 1..Len(SensorOptions) : ConfigGet(analysis.config, SensorOptions[i]) = ""}

\* C25: constructing an engine with price calculation enabled and any of the
\* five required sensor identifiers missing or empty fails at construction
\* with a configuration error, so that no engine with an incomplete set of
\* signals ever begins a recompute.
C25_IncompleteConfigFailsFast ==
    /\ (/\ analysis.stage \notin {"config"}
        /\ analysis.config["price_calculation_enabled"]
        /\ MissingSensors # {}) => analysis.stage = "ValueError"
    /\ \A c \in Callers :
           run[c].pc # "idle" =>
               /\ analysis.stage = "constructed"
               /\ MissingSensors = {}
    /\ analysis.stage # "constructed" =>
           /\ ~price_calculation_enabled
           /\ \A c \in Callers : run[c] = IdleRun("none")

\* the constructor has refused a configuration with price calculation
\* enabled, a load interface, the grid sensor empty and the PV sensor left
\* out, and the other three sensors set
C25_Witness ==
    /\ analysis.stage = "ValueError"
    /\ analysis.load_interface
    /\ analysis.config["price_calculation_enabled"]
    /\ "pv_power_sensor" \notin DOMAIN analysis.config
    /\ "grid_power_sensor" \in DOMAIN analysis.config
    /\ MissingSensors = {2, 3}
    /\ now > 0

\* C26: after any sequence of calls of set_mode_force_charge,
\* set_mode_avoid_discharge and set_mode_allow_discharge, current_mode is the
\* mode the most recent call asked for, whether or not its service sequence
\* succeeded; before the first call it is None.
C26_CurrentModeIsLastRequested ==
    /\ inverter.pc # "none" /\ inverter.n_calls = 0 => inverter.current_mode = None
    /\ inverter.pc = "idle" /\ inverter.n_calls > 0 =>
           inverter.current_mode = Some(inverter.mode)

\* the third call, a force charge after another mode, has failed and
\* current_mode is force_charge
C26_Witness ==
    /\ inverter.pc = "idle"
    /\ inverter.n_calls = MaxCalls
    /\ inverter.mode = "force_charge"
    /\ inverter.result = Some(FALSE)
    /\ inverter.calls # <<>>
    /\ inverter.current_mode = Some("force_charge")

\* C27: _execute_sequence attempts every step of the sequence in order, also
\* after a step has failed, and returns True exactly when the sequence is not
\* empty and every step succeeded; an empty or missing sequence returns False
\* without any service call.
C27_SequenceRunsEveryStep ==
    /\ inverter.pc = "execute" =>
           /\ inverter.step <= Len(inverter.sequence_config)
           /\ Len(inverter.calls) = inverter.step - 1
    /\ inverter.pc \in {"idle", "execute"} =>
           \A i \in 1..Len(inverter.calls) :
               /\ i <= Len(inverter.sequence_config)
               /\ inverter.calls[i].service = inverter.sequence_config[i].service
               /\ inverter.calls[i].variables = inverter.variables
    /\ inverter.pc = "idle" /\ inverter.n_calls > 0 =>
           /\ Len(inverter.calls) = Len(inverter.sequence_config)
           /\ inverter.result =
                  Some(/\ inverter.sequence_config # <<>>
                       /\ \A i \in 1..Len(inverter.calls) : inverter.calls[i].ok)
           /\ inverter.sequence_config = <<>> =>
                  inverter.calls = <<>> /\ inverter.result = Some(FALSE)

\* a sequence of two steps has returned False: its first step failed and its
\* second step was called all the same, and succeeded
C27_Witness ==
    /\ inverter.pc = "idle"
    /\ Len(inverter.sequence_config) = 2
    /\ Len(inverter.calls) = 2
    /\ ~inverter.calls[1].ok
    /\ inverter.calls[2].ok
    /\ inverter.result = Some(FALSE)

\* C28: the power set_mode_force_charge passes to the charge sequence is
\* within [0, max_grid_charge_rate]: a negative request becomes 0, a request
\* above the maximum becomes max_grid_charge_rate, and an omitted request
\* uses max_grid_charge_rate.
C28_ChargePowerClamped ==
    (inverter.pc \in {"idle", "execute"} /\ inverter.mode = "force_charge") =>
        LET maximum == inverter.max_grid_charge_rate
            request == inverter.charge_power_w
        IN  /\ inverter.variables # None
            /\ 0 <= The(inverter.variables) /\ The(inverter.variables) <= maximum
            /\ request = None => The(inverter.variables) = maximum
            /\ request # None /\ The(request) < 0 => The(inverter.variables) = 0
            /\ request # None /\ The(request) > maximum =>
                   The(inverter.variables) = maximum
            /\ request # None /\ 0 <= The(request) /\ The(request) <= maximum =>
                   The(inverter.variables) = The(request)
            /\ \A i \in 1..Len(inverter.calls) :
                   inverter.calls[i].variables = inverter.variables

\* a force charge asked for with -500 W has called both steps of its sequence
\* with a power of 0
C28_Witness ==
    /\ inverter.pc = "idle"
    /\ inverter.mode = "force_charge"
    /\ inverter.charge_power_w = Some(-500)
    /\ inverter.max_grid_charge_rate = 5000
    /\ Len(inverter.calls) = 2
    /\ \A i \in 1..2 : inverter.calls[i].variables = Some(0)

\* the reading of a point is above the charging threshold under the
\* convention of the analysis
Charging(point) ==
    Normalized(point.value, analysis.convention) > charging_threshold_w

\* C29: every charging event the reconstructor emits is non-empty, its first
\* and its last point both have normalized power strictly above
\* charging_threshold_w, its start_time is the timestamp of its first point
\* and its end_time the timestamp of its last point after trimming.
C29_EventsTrimmedAndBounded ==
    analysis.stage = "events" =>
        \A k \in 1..Len(analysis.charging_events) :
            LET event == analysis.charging_events[k]
                power_points == event.power_points
            IN  /\ power_points # <<>>
                /\ Charging(power_points[1])
                /\ Charging(power_points[Len(power_points)])
                /\ event.start_time = power_points[1].timestamp
                /\ event.end_time = power_points[Len(power_points)].timestamp

\* an event of three points that kept a reading at the threshold between two
\* charging ones and lost the reading below the threshold that followed it
C29_Witness ==
    /\ analysis.stage = "events"
    /\ \E k \in 1..Len(analysis.charging_events) :
           LET event == analysis.charging_events[k]
               battery_data == analysis.historical_data.battery_power
           IN  /\ Len(event.power_points) = 3
               /\ ~Charging(event.power_points[2])
               /\ \E i \in 1..Len(battery_data) :
                      /\ ~Charging(battery_data[i])
                      /\ battery_data[i].timestamp > event.end_time
                      /\ battery_data[i].timestamp - event.end_time
                             < MAX_GAP_SECONDS_IDENTIFY

\* the last point among the first j of power_points that charges
LastCharging(power_points, j) ==
    CHOOSE i \in 1..j :
        /\ Charging(power_points[i])
        /\ \A k \in (i + 1)..j : ~Charging(power_points[k])

\* C30: within an event a sample at or below the threshold is kept only if
\* less than 600 s have passed since the last sample of the event above the
\* threshold; a sample, above or below the threshold, that comes 600 s or more
\* after the last sample above the threshold closes the open event and is
\* never appended to it, and one above the threshold starts a new event.
C30_GapClosesEvent ==
    analysis.stage = "events" =>
        LET battery_data == analysis.historical_data.battery_power
            events == analysis.charging_events
            charging == {i \in 1..Len(battery_data) : Charging(battery_data[i])}
        IN  /\ \A k \in 1..Len(events) :
                   \A j \in 2..Len(events[k].power_points) :
                       LET power_points == events[k].power_points
                       IN  power_points[j].timestamp
                               - power_points[LastCharging(power_points, j - 1)].timestamp
                                   < 600
            /\ \A i \in charging :
                   LET before == {h \in charging : h < i}
                       starts == \E k \in 1..Len(events) :
                                     events[k].power_points[1] = battery_data[i]
                   IN  IF before = {} THEN starts
                       ELSE LET last == CHOOSE h \in before : \A g \in before : g <= h
                            IN  starts <=>
                                    battery_data[i].timestamp - battery_data[last].timestamp
                                        >= 600

\* a charging sample 600 s after the last charging one, with a sample below
\* the threshold kept between them, has started a second event
C30_Witness ==
    /\ analysis.stage = "events"
    /\ Len(analysis.charging_events) >= 2
    /\ \E k \in 1..(Len(analysis.charging_events) - 1) :
           LET event == analysis.charging_events[k]
               next == analysis.charging_events[k + 1]
               battery_data == analysis.historical_data.battery_power
           IN  /\ Len(event.power_points) >= 3
               /\ \E j \in 2..(Len(event.power_points) - 1) :
                      ~Charging(event.power_points[j])
               /\ next.start_time - event.end_time = 600
               /\ \E i \in 1..Len(battery_data) :
                      /\ ~Charging(battery_data[i])
                      /\ event.end_time < battery_data[i].timestamp
                      /\ battery_data[i].timestamp < next.start_time

\* the places (event k, position j) at which sample i of the battery series
\* sits in the emitted events
PlacesOf(i) ==
    LET battery_data == analysis.historical_data.battery_power
        events == analysis.charging_events
    IN  {place \in UNION {{k} \X (1..Len(events[k].power_points)) :
                              k \in 1..Len(events)} :
            events[place[1]].power_points[place[2]] = battery_data[i]}

\* C31: the reconstructor partitions the charging samples: every battery
\* sample whose normalized power is above the threshold sits in exactly one
\* emitted event, no sample sits in two events (or twice in one), and the
\* events come in chronological order with time ranges that do not overlap.
C31_ChargingSamplesPartitioned ==
    analysis.stage = "events" =>
        LET battery_data == analysis.historical_data.battery_power
            events == analysis.charging_events
        IN  /\ \A i \in 1..Len(battery_data) :
                   /\ Charging(battery_data[i]) => Cardinality(PlacesOf(i)) = 1
                   /\ Cardinality(PlacesOf(i)) <= 1
            /\ \A k \in 1..Len(events) :
                   /\ events[k].start_time <= events[k].end_time
                   /\ \A j \in 1..Len(events[k].power_points) :
                          /\ events[k].start_time <= events[k].power_points[j].timestamp
                          /\ events[k].power_points[j].timestamp <= events[k].end_time
                   /\ k < Len(events) => events[k].end_time < events[k + 1].start_time

\* two events, the first of two charging samples around one below the
\* threshold, and a sample below the threshold between the events that sits
\* in neither
C31_Witness ==
    /\ analysis.stage = "events"
    /\ Len(analysis.charging_events) = 2
    /\ LET battery_data == analysis.historical_data.battery_power
           first == analysis.charging_events[1].power_points
       IN  /\ Len(first) = 3
           /\ Charging(first[1]) /\ ~Charging(first[2]) /\ Charging(first[3])
           /\ \E i \in 1..Len(battery_data) :
                  /\ ~Charging(battery_data[i])
                  /\ PlacesOf(i) = {}
           /\ \A i \in 1..Len(battery_data) :
                  Charging(battery_data[i]) => PlacesOf(i) # {}

\* the streams the splitter aligns, by the key of their cursor
StreamOf(key) ==
    Get(analysis.historical_data,
        CASE key = "pv" -> "pv_power" [] key = "grid" -> "grid_power"
          [] key = "load" -> "load_power" [] OTHER -> "price_data")

\* the cursor of stream key before iteration n of the split
CursorBefore(key, n) ==
    IF n = 1 THEN 1 ELSE analysis.intervals[n - 1].indices[key]

\* C32: during the split of one event each stream's cursor (PV, grid, load,
\* price) never decreases from one interval to the next, and the value used
\* for an interval is that of the latest sample of the stream whose timestamp
\* is at or before the interval start; no sample later than the interval
\* start is ever used for that interval.
C32_CursorHoldsLatestAtOrBefore ==
    analysis.stage = "split" =>
        \A n \in 1..Len(analysis.intervals), key \in {"pv", "grid", "load", "price"} :
            LET data == StreamOf(key)
                step == analysis.intervals[n]
                idx == step.indices[key]
            IN  data # <<>> =>
                    /\ idx >= CursorBefore(key, n)
                    /\ step.values[key] = data[idx].value
                    /\ data[idx].timestamp <= step.timestamp
                    /\ \A j \in (idx + 1)..Len(data) :
                           data[j].timestamp > step.timestamp

\* the reading of a stream at time t as the detector takes it: the value of
\* the sample nearest to t among those within the window [lo, hi] (of two
\* equally near, the earlier one), if it is at most 300 s away, and 0 otherwise
ReadingAt(data, t, lo, hi) ==
    LET inside == {i \in 1..Len(data) :
                       lo <= data[i].timestamp /\ data[i].timestamp <= hi}
        Away(i) == Abs(data[i].timestamp - t)
        First(i, j) ==
            \/ data[i].timestamp < data[j].timestamp
            \/ data[i].timestamp = data[j].timestamp /\ i <= j
    IN  IF inside = {} THEN 0
        ELSE LET nearest == CHOOSE i \in inside :
                                \A j \in inside :
                                    Away(i) < Away(j) \/ (Away(i) = Away(j) /\ First(i, j))
             IN  IF Away(nearest) <= 300 THEN data[nearest].value ELSE 0

\* the samples of the detection window that are contextually justified: the
\* battery magnitude is above the threshold while the grid imports more than
\* the threshold or PV exceeds the load by more than the threshold
Justified(series) ==
    LET battery == series.battery_power
        times == {battery[i].timestamp : i \in 1..Len(battery)}
        lo == CHOOSE t \in times : \A u \in times : t <= u
        hi == CHOOSE t \in times : \A u \in times : u <= t
    IN  {i \in 1..Len(battery) :
            /\ Abs(battery[i].value) > charging_threshold_w
            /\ \/ ReadingAt(Get(series, "grid_power"), battery[i].timestamp, lo, hi)
                      > charging_threshold_w
               \/ ReadingAt(Get(series, "pv_power"), battery[i].timestamp, lo, hi)
                      > ReadingAt(Get(series, "load_power"), battery[i].timestamp, lo, hi)
                            + charging_threshold_w}

\* C33: with at least 3 contextually justified samples in the detection
\* window the detector returns negative_charging exactly when strictly more
\* of them have negative battery power than positive, otherwise
\* positive_charging; with fewer than 3 it returns the majority sign among
\* the window samples whose magnitude exceeds twice the threshold,
\* positive_charging on a tie.
C33_ConventionByJustifiedMajority ==
    analysis.stage = "detected" =>
        LET battery == analysis.series.battery_power
            justified == Justified(analysis.series)
            strong == {i \in 1..Len(battery) :
                          Abs(battery[i].value) > 2 * charging_threshold_w}
            Negative(among) == Cardinality({i \in among : battery[i].value < 0})
            Positive(among) == Cardinality({i \in among : battery[i].value > 0})
            among == IF Cardinality(justified) >= 3 THEN justified ELSE strong
        IN  analysis.detected =
                IF Negative(among) > Positive(among) THEN "negative_charging"
                ELSE "positive_charging"

\* three justified samples, two of them negative, decide for
\* negative_charging although the signs of the window are tied
C33_Witness ==
    /\ analysis.stage = "detected"
    /\ analysis.detected = "negative_charging"
    /\ LET battery == analysis.series.battery_power
           justified == Justified(analysis.series)
       IN  /\ Cardinality(justified) = 3
           /\ Cardinality({i \in justified : battery[i].value < 0}) = 2
           /\ Cardinality({i \in 1..Len(battery) : battery[i].value < 0}) = 2
           /\ Cardinality({i \in 1..Len(battery) : battery[i].value > 100}) = 2

\* the timestamp delta of pair n of the event that was split
PairDelta(n) ==
    analysis.event.power_points[n + 1].timestamp
        - analysis.event.power_points[n].timestamp

\* C34: for each consecutive pair of event samples the duration used for
\* integration is the timestamp delta when it is at most max_gap_seconds
\* (600 s) and the 300 s default when the delta is larger; no interval is
\* integrated with a duration above 600 s. (The load total, a constant 504 W
\* here, shows the duration each interval was integrated with.)
C34_DurationCappedOrDefault ==
    analysis.stage = "split" =>
        /\ Len(analysis.intervals) = Len(analysis.event.power_points) - 1
        /\ \A n \in 1..Len(analysis.intervals) :
               LET duration == IF PairDelta(n) <= 600 THEN PairDelta(n) ELSE 300
                   before == IF n = 1 THEN ZeroTotals ELSE analysis.intervals[n - 1].totals
               IN  /\ analysis.intervals[n].delta_seconds = duration
                   /\ analysis.intervals[n].delta_seconds <= 600
                   /\ analysis.intervals[n].totals.total_load_wh
                          = before.total_load_wh + (504 * duration) \div 3600
        /\ analysis.totals = analysis.intervals[Len(analysis.intervals)].totals

\* an event with a pair 200 s apart, a pair exactly 600 s apart and a pair
\* 900 s apart, integrated over 200, 600 and 300 s
C34_Witness ==
    /\ analysis.stage = "split"
    /\ {PairDelta(n) : n \in 1..Len(analysis.intervals)} = {200, 600, 900}
    /\ \E n \in 1..Len(analysis.intervals) :
           PairDelta(n) = 900 /\ analysis.intervals[n].delta_seconds = 300
    /\ \E n \in 1..Len(analysis.intervals) :
           PairDelta(n) = 600 /\ analysis.intervals[n].delta_seconds = 600

\* C35: for every charging event the reconstructor produces from a
\* time-sorted battery series, the time between any two consecutive points of
\* the event is strictly less than 600 s, so the default-duration replacement
\* of the splitter is never triggered for reconstructed events: the duration
\* it integrates a pair with is the timestamp delta of the pair.
C35_EventPairsUnderGap ==
    analysis.stage = "events" =>
        \A k \in 1..Len(analysis.charging_events) :
            LET power_points == analysis.charging_events[k].power_points
            IN  \A j \in 1..(Len(power_points) - 1) :
                    /\ power_points[j + 1].timestamp - power_points[j].timestamp < 600
                    /\ IntervalSeconds(power_points[j], power_points[j + 1])
                           = power_points[j + 1].timestamp - power_points[j].timestamp

\* an event with a pair 400 s apart, next to a charging sample that came
\* exactly 600 s after the last one and began another event
C35_Witness ==
    /\ analysis.stage = "events"
    /\ Len(analysis.charging_events) >= 2
    /\ \E k \in 1..(Len(analysis.charging_events) - 1) :
           LET power_points == analysis.charging_events[k].power_points
               battery_data == analysis.historical_data.battery_power
           IN  /\ \E j \in 1..(Len(power_points) - 1) :
                      power_points[j + 1].timestamp - power_points[j].timestamp = 400
               /\ \E i \in 1..(Len(battery_data) - 1) :
                      /\ battery_data[i] = power_points[Len(power_points)]
                      /\ battery_data[i + 1].timestamp - battery_data[i].timestamp = 600
                      /\ analysis.charging_events[k + 1].power_points[1]
                             = battery_data[i + 1]

\* C36: for every input _calculate_power_split returns pv_to_battery >= 0 and
\* grid_to_battery >= 0, so no session has a negative charged_from_pv or
\* charged_from_grid, also for event intervals in which a sample below the
\* threshold kept inside the event makes the average battery power negative.
C36_SplitNeverNegative ==
    analysis.stage = "split" =>
        /\ \A n \in 1..Len(analysis.intervals) :
               /\ analysis.intervals[n].split.pv_to_bat >= 0
               /\ analysis.intervals[n].split.grid_to_bat >= 0
        /\ LET sessions == EventSession(analysis.event, analysis.historical_data,
                                        analysis.convention, 0)
           IN  \A i \in 1..Len(sessions) :
                   /\ sessions[i].charged_from_pv >= 0
                   /\ sessions[i].charged_from_grid >= 0

\* no caller is inside update_price_if_needed
EngineIdle == \A c \in Callers : run[c].pc = "idle"

\* C37: whenever the engine is idle (every recompute having been started
\* through update_price_if_needed) the stored_energy_price of the last
\* analysis result equals the current price get_current_price returns, up to
\* the 6-decimal rounding of the stored value, after any sequence of
\* successful, no-event, no-data and failed recomputes.
C37_StoredPriceIsCurrentPrice ==
    EngineIdle =>
        heap[last_analysis_results].stored_energy_price = Round6(get_current_price)

\* the send a step started, if it started one
SendStarted ==
    coordinator.n_sent' = coordinator.n_sent + 1

NewSend == coordinator.pending'[Len(coordinator.pending')]

\* a pending send came back in the step
SendReturned ==
    Len(coordinator.pending') = Len(coordinator.pending) - 1

\* C38: _set_evcc_mode_if_changed sends a battery mode to EVCC only when it
\* differs from the last mode that was sent successfully, and _last_evcc_mode
\* changes only after a send that reported success (to the mode of that send);
\* after a failed or raising send it is unchanged, so the same mode is sent
\* again at the next sync: a request for a mode other than _last_evcc_mode
\* always starts a send of it.
C38_EvccModeSentOnlyIfChanged ==
    [][/\ SendStarted =>
              Some(NewSend.evcc_mode) # coordinator._last_evcc_mode
       /\ coordinator._last_evcc_mode' # coordinator._last_evcc_mode =>
              /\ SendReturned
              /\ The(coordinator.last_result').outcome = "True"
              /\ coordinator._last_evcc_mode'
                     = Some(The(coordinator.last_result').evcc_mode)
       /\ (SendReturned /\ The(coordinator.last_result').outcome # "True") =>
              coordinator._last_evcc_mode' = coordinator._last_evcc_mode
       /\ coordinator.last_request' # None =>
              LET request == The(coordinator.last_request')
              IN  request.sent <=> Some(request.evcc_mode) # request.last
       /\ coordinator.last_request' # coordinator.last_request =>
              LET request == The(coordinator.last_request')
              IN  /\ request.last = coordinator._last_evcc_mode
                  /\ request.sent <=>
                         SendStarted /\ NewSend.evcc_mode = request.evcc_mode
      ]_vars

\* a send of "charge" came back without success, _last_evcc_mode is still
\* what a successful send of "hold" made it, and "charge" is being sent again
C38_Witness ==
    /\ coordinator.pc = "running"
    /\ coordinator.n_sent = 3
    /\ coordinator._last_evcc_mode = Some("hold")
    /\ coordinator.last_result # None
    /\ The(coordinator.last_result).outcome \in {"False", "raises"}
    /\ The(coordinator.last_result).evcc_mode = "charge"
    /\ The(coordinator.last_result).before = Some("hold")
    /\ coordinator.pending = <<[by |-> "hourly", evcc_mode |-> "charge"]>>
    /\ The(coordinator.last_send).last = Some("hold")

\* C39: after any sequence of async_set_15min_refinement(True/False) calls at
\* most one 15-minute timer subscription is active (the one _15min_unsub
\* stands for), and none is active after the most recent call was a disable;
\* while refinement is enabled the hourly sync never sends an EVCC battery
\* mode.
C39_OneRefinementTimer ==
    coordinator.pc = "running" =>
        /\ Cardinality(coordinator.subscriptions) <= 1
        /\ coordinator.subscriptions =
               IF coordinator._15min_unsub = None THEN {}
               ELSE {The(coordinator._15min_unsub)}
        /\ coordinator.last_call = Some(FALSE) => coordinator.subscriptions = {}
        /\ (coordinator.last_send # None /\ The(coordinator.last_send).by = "hourly")
               => ~The(coordinator.last_send).refinement

\* the refinement was enabled twice over and then disabled: the one timer is
\* gone, and the hourly sync, which kept still meanwhile, has sent a mode
C39_Witness ==
    /\ coordinator.pc = "running"
    /\ coordinator.last_call = Some(FALSE)
    /\ coordinator.n_subscribed = 2
    /\ coordinator.subscriptions = {}
    /\ coordinator.n_sent = 2
    /\ The(coordinator.last_send).by = "hourly"
    /\ coordinator._last_evcc_mode # None

====
